---- MODULE Spec2Model ----
(***************************************************************************)
(* RocketPy environment tools (rocketpy/environment/tools.py): the grid    *)
(* index resolver (find_longitude_index, find_latitude_index,              *)
(* find_time_index) and the masked-data cleaning step                      *)
(* (mask_and_clean_dataset).                                               *)
(*                                                                         *)
(* Coordinates are whole degrees, times are whole hours.  Python           *)
(* sequences are 0-based: At(a, i) is a[i], Last(a) is a[-1].              *)
(***************************************************************************)
EXTENDS Integers, Sequences, FiniteSets, TLC

VARIABLES
    coord_list,   \* the caller's list object passed as lon_list / lat_list
    given_list,   \* that list as the caller built it, before any call
    pc,           \* per caller: position inside the call
    func,         \* per caller: which function is being called
    arg,          \* per caller: the longitude / latitude argument
    lon,          \* per caller: local lon (normalized) / latitude
    index,        \* per caller: local lon_index / lat_index
    outcome,      \* per caller: "none", "returned" or "raised"
    time_array,   \* find_time_index: the netCDF time variable (units, values)
    datetime_date,\* find_time_index: the datetime asked for
    time_index,   \* find_time_index: the index found
    time_call,    \* find_time_index: "none", "ready", "returned" or "raised"
    error,        \* find_time_index: the ValueError raised, if any
    args,         \* mask_and_clean_dataset: the masked arrays passed
    data_array,   \* mask_and_clean_dataset: the array returned
    mask_call,    \* mask_and_clean_dataset: "none", "ready" or "returned"
    field_call,   \* the field sampler: the function called and its arguments
    field_result, \* the field sampler: "none", "ready", the value returned or the error raised
    tank,         \* the tank model: the tank constructed
    tank_t,       \* the tank model: the time the outputs are read at
    tank_out,     \* the tank model: <<>> or the outputs read, by name
    mc_given,     \* McSolidMotor: the values dictionary as set_attr received it
    mc_values,    \* McSolidMotor: the values dictionary of the model being validated
    mc_result,    \* McSolidMotor: "none", "ready", "validated" or the error raised
    sensor,       \* the sensor constructed (its type and settings)
    measurement,  \* the sensor's measurement attribute (<<>> before any measure)
    measured_data,\* the sensor's measured_data list
    saved,        \* the arguments of the _save_data calls made so far
    measure_calls,\* the arguments of the measure calls made so far
    export_call,  \* export_measured_data: the latest call's arguments and the data then held
    export_result,\* export_measured_data: "none", "returned" or the error raised
    files,        \* export_measured_data: the files the latest call wrote
    interval_call,\* get_interval_data_from_time_array: the arguments
    interval_result, \* get_interval_data_from_time_array: "ready", the value or the error
    warnings      \* the warnings the latest call emitted (warnings.warn)

gridVars == <<coord_list, given_list, pc, func, arg, lon, index, outcome>>

timeVars == <<time_array, datetime_date, time_index, time_call, error>>

maskVars == <<args, data_array, mask_call>>

fieldVars == <<field_call, field_result>>

tankVars == <<tank, tank_t, tank_out>>

motorVars == <<mc_given, mc_values, mc_result>>

sensorVars == <<sensor, measurement, measured_data, saved, measure_calls, export_call, export_result, files>>

intervalVars == <<interval_call, interval_result>>

\* the groups added after the tank model
laterVars == <<motorVars, sensorVars, intervalVars>>

\* what the index search of a coordinate list leaves alone
nonGridVars == <<timeVars, maskVars, fieldVars, tankVars, laterVars, warnings>>

\* what a call of the field sampler leaves alone
nonFieldVars == <<gridVars, timeVars, maskVars, tankVars, laterVars, warnings>>

\* what reading a tank leaves alone
nonTankVars == <<gridVars, timeVars, maskVars, fieldVars, laterVars, warnings>>

\* what validating a McSolidMotor leaves alone
nonMotorVars == <<gridVars, timeVars, maskVars, fieldVars, tankVars, sensorVars, intervalVars, warnings>>

\* what a sensor call leaves alone
nonSensorVars == <<gridVars, timeVars, maskVars, fieldVars, tankVars, motorVars, intervalVars, warnings>>

\* what get_interval_data_from_time_array leaves alone
nonIntervalVars == <<gridVars, timeVars, maskVars, fieldVars, tankVars, motorVars, sensorVars, warnings>>

vars == <<gridVars, timeVars, maskVars, fieldVars, tankVars, laterVars, warnings>>

----------------------------------------------------------------------------
(* Bounds of the model *)

\* longest axis list
MaxAxisLen == 5
\* query coordinates are the multiples of 45 degrees up to QuerySteps steps
\* either side of 0
QuerySteps == 18

----------------------------------------------------------------------------
(* Python list primitives *)

At(a, i) == a[i + 1]

Last(a) == a[Len(a)]

\* list.reverse()
Reverse(a) == [i \in 1..Len(a) |-> a[Len(a) + 1 - i]]

\* bisect.bisect (bisect_right): the binary search of the standard library,
\* which only compares x with a[mid] and never checks that a is sorted
RECURSIVE BisectRightFrom(_, _, _, _)
BisectRightFrom(a, x, lo, hi) ==
    IF lo < hi
    THEN LET mid == (lo + hi) \div 2
         IN  IF x < At(a, mid)
             THEN BisectRightFrom(a, x, lo, mid)
             ELSE BisectRightFrom(a, x, mid + 1, hi)
    ELSE lo

Bisect(a, x) == BisectRightFrom(a, x, 0, Len(a))

\* bisect.bisect_left
RECURSIVE BisectLeftFrom(_, _, _, _)
BisectLeftFrom(a, x, lo, hi) ==
    IF lo < hi
    THEN LET mid == (lo + hi) \div 2
         IN  IF At(a, mid) < x
             THEN BisectLeftFrom(a, x, mid + 1, hi)
             ELSE BisectLeftFrom(a, x, lo, mid)
    ELSE lo

BisectLeft(a, x) == BisectLeftFrom(a, x, 0, Len(a))

----------------------------------------------------------------------------
(* The statements of find_longitude_index / find_latitude_index *)

\* "Determine if file uses -180 to 180 or 0 to 360"
UsesNegativeConvention(lon_list) == At(lon_list, 0) < 0 \/ Last(lon_list) < 0

\* the conversion of the input longitude
NormalizeLongitude(longitude, lon_list) ==
    IF UsesNegativeConvention(lon_list)
    THEN IF longitude < 180 THEN longitude ELSE -180 + (longitude % 180)
    ELSE longitude % 360

\* the comparison written the wrong way round
IsSorted_Inverted(a) == At(a, 0) > Last(a)

\* "Check if reversed or sorted"
IsSorted(a) == At(a, 0) < Last(a)

\* the insertion point of the reversed list taken as it is, not mirrored back
MirroredIndex_NotMirrored(reversed_list, x) == BisectLeft(reversed_list, x)

\* the right insertion point used for the reversed list too
MirroredIndex_RightBisect(reversed_list, x) == Len(reversed_list) - Bisect(reversed_list, x)

\* the mirrored insertion point, computed on the list as reverse() left it
MirroredIndex(reversed_list, x) == Len(reversed_list) - BisectLeft(reversed_list, x)

\* the boundary fix-up left out
FixUp_Missing(a, i, x) == i

\* "Take care of ... value equal to maximum ... in the grid"
FixUp(a, i, x) ==
    IF i = Len(a) /\ At(a, i - 1) = x THEN i - 1 ELSE i

\* "Check if ... value is inside the grid": the condition of the raise
OutsideGrid(a, i) == i = 0 \/ i = Len(a)

\* the call with the second lon_list.reverse() left out
IndexCall_NotRestored(x, a) ==
    LET i0 == IF IsSorted(a)
              THEN Bisect(a, x)
              ELSE MirroredIndex(Reverse(a), x)
        after == IF IsSorted(a) THEN a ELSE Reverse(a)
        i1 == FixUp(after, i0, x)
    IN  [lon |-> x, index |-> i1, raised |-> OutsideGrid(after, i1),
         list |-> after]

\* One whole call of find_longitude_index on list a, after the conversion
\* of the longitude: the local value, the index and whether
\* ValueError was raised.  The list is reversed in place, searched and
\* reversed again; Reverse(Reverse(a)) is the list the later statements read.
IndexCall(x, a) ==
    LET i0 == IF IsSorted(a)
              THEN Bisect(a, x)
              ELSE MirroredIndex(Reverse(a), x)
        after == IF IsSorted(a) THEN a ELSE Reverse(Reverse(a))
        i1 == FixUp(after, i0, x)
    IN  [lon |-> x, index |-> i1, raised |-> OutsideGrid(after, i1),
         list |-> after]

find_longitude_index(longitude, lon_list) ==
    IndexCall(NormalizeLongitude(longitude, lon_list), lon_list)

\* the descending branch searched with bisect instead of bisect_left
find_latitude_index_RightBisect(latitude, lat_list) ==
    LET sorted == At(lat_list, 0) < Last(lat_list)
        reversed_list == Reverse(lat_list)
        i0 == IF sorted
              THEN Bisect(lat_list, latitude)
              ELSE Len(reversed_list) - Bisect(reversed_list, latitude)
        after == IF sorted THEN lat_list ELSE Reverse(reversed_list)
        lat_index == IF i0 = Len(after) /\ At(after, i0 - 1) = latitude THEN i0 - 1 ELSE i0
    IN  [lon |-> latitude, index |-> lat_index,
         raised |-> lat_index = 0 \/ lat_index = Len(after), list |-> after]

\* find_latitude_index, statement by statement from its own body: the order
\* test, the search (the list reversed in place, searched and reversed
\* again), the fix-up of the last grid value and the range check
find_latitude_index(latitude, lat_list) ==
    LET sorted == At(lat_list, 0) < Last(lat_list)
        reversed_list == Reverse(lat_list)
        i0 == IF sorted
              THEN Bisect(lat_list, latitude)
              ELSE Len(reversed_list) - BisectLeft(reversed_list, latitude)
        after == IF sorted THEN lat_list ELSE Reverse(reversed_list)
        lat_index == IF i0 = Len(after) /\ At(after, i0 - 1) = latitude THEN i0 - 1 ELSE i0
    IN  [lon |-> latitude, index |-> lat_index,
         raised |-> lat_index = 0 \/ lat_index = Len(after), list |-> after]

----------------------------------------------------------------------------
(* Inputs *)

\* grid values of a -180..180 file and of a 0..360 file
NegativeGrid == {-180, -90, 0, 90, 180}
PositiveGrid == {0, 90, 180, 270}

\* the strictly ascending list holding the elements of S
RECURSIVE Ascending(_)
Ascending(S) ==
    IF S = {} THEN <<>>
    ELSE LET m == CHOOSE v \in S : \A w \in S : v <= w
         IN  <<m>> \o Ascending(S \ {m})

AxisSets ==
    {S \in (SUBSET NegativeGrid) \cup (SUBSET PositiveGrid) :
        Cardinality(S) >= 2 /\ Cardinality(S) <= MaxAxisLen}

\* axes ordered ascending or descending
Axes == {Ascending(S) : S \in AxisSets} \cup {Reverse(Ascending(S)) : S \in AxisSets}

Queries == {45 * k : k \in -QuerySteps..QuerySteps}

Callers == {1, 2}

Functions == {"find_longitude_index", "find_latitude_index"}

----------------------------------------------------------------------------
(* Sequential use: caller 1 makes one whole call after another *)

NoCall ==
    /\ pc = [p \in Callers |-> "idle"]
    /\ func = [p \in Callers |-> "none"]
    /\ arg = [p \in Callers |-> 0]
    /\ lon = [p \in Callers |-> 0]
    /\ index = [p \in Callers |-> 0]
    /\ outcome = [p \in Callers |-> "none"]

NoDatetime == [day |-> 0, hour |-> 0]

NoError == [type |-> "none", text |-> "none", date |-> NoDatetime]

TimeIdle ==
    /\ time_array = [units |-> NoDatetime, values |-> <<>>]
    /\ datetime_date = NoDatetime
    /\ time_index = 0
    /\ time_call = "none"
    /\ error = NoError

MaskIdle ==
    /\ args = <<>>
    /\ data_array = <<>>
    /\ mask_call = "none"

FieldIdle ==
    /\ field_call = [function |-> "none"]
    /\ field_result = [status |-> "none"]

TankIdle ==
    /\ tank = [kind |-> "none"]
    /\ tank_t = 0
    /\ tank_out = <<>>

MotorIdle ==
    /\ mc_given = <<>>
    /\ mc_values = <<>>
    /\ mc_result = [status |-> "none"]

SensorIdle ==
    /\ sensor = [type |-> "none"]
    /\ measurement = <<>>
    /\ measured_data = <<>>
    /\ saved = <<>>
    /\ measure_calls = <<>>
    /\ export_call = <<>>
    /\ export_result = [status |-> "none"]
    /\ files = <<>>

IntervalIdle ==
    /\ interval_call = <<>>
    /\ interval_result = [status |-> "none"]

Init ==
    /\ coord_list \in Axes
    /\ given_list = coord_list
    /\ NoCall
    /\ TimeIdle
    /\ MaskIdle
    /\ FieldIdle
    /\ TankIdle
    /\ MotorIdle
    /\ SensorIdle
    /\ IntervalIdle
    /\ warnings = <<>>

Finish(p, f, x, r) ==
    /\ coord_list' = r.list
    /\ UNCHANGED <<given_list, nonGridVars>>
    /\ pc' = [pc EXCEPT ![p] = "done"]
    /\ func' = [func EXCEPT ![p] = f]
    /\ arg' = [arg EXCEPT ![p] = x]
    /\ lon' = [lon EXCEPT ![p] = r.lon]
    /\ index' = [index EXCEPT ![p] = r.index]
    /\ outcome' = [outcome EXCEPT ![p] = IF r.raised THEN "raised" ELSE "returned"]

FindLongitudeIndex ==
    \E longitude \in Queries :
        Finish(1, "find_longitude_index", longitude,
               find_longitude_index(longitude, coord_list))

FindLatitudeIndex ==
    \E latitude \in Queries :
        Finish(1, "find_latitude_index", latitude,
               find_latitude_index(latitude, coord_list))

Next == FindLongitudeIndex \/ FindLatitudeIndex

Spec == Init /\ [][Next]_vars

----------------------------------------------------------------------------
(* Properties of the index search, checked under Spec *)

SpanLow(a) == IF At(a, 0) <= Last(a) THEN At(a, 0) ELSE Last(a)

SpanHigh(a) == IF At(a, 0) <= Last(a) THEN Last(a) ELSE At(a, 0)

Between(x, u, v) == (u <= x /\ x <= v) \/ (v <= x /\ x <= u)

\* the two grid values of the cell that index i names
Bracket(a, i) == {At(a, i - 1), At(a, i)}

Called(p) == pc[p] = "done"

Returned(p) == Called(p) /\ outcome[p] = "returned"

Raised(p) == Called(p) /\ outcome[p] = "raised"

\* C1: for an ascending or descending axis, find_longitude_index (on the
\* normalized longitude) and find_latitude_index raise ValueError exactly
\* when the query lies strictly outside the span between axis[0] and
\* axis[-1]; a query equal to either endpoint returns.
C1_RaisesExactlyOutsideSpan ==
    Called(1) =>
        (outcome[1] = "raised"
            <=> (lon[1] < SpanLow(coord_list) \/ lon[1] > SpanHigh(coord_list)))

\* a descending axis queried at its last (smallest) value: the call returns
C1_Witness ==
    /\ Returned(1)
    /\ ~IsSorted(coord_list)
    /\ lon[1] = Last(coord_list)
    /\ index[1] = Len(coord_list) - 1

\* the query is a grid value other than the two endpoints
InteriorGridValue(a, x) == \E j \in 1..(Len(a) - 2) : At(a, j) = x

\* C2 as stated: every successful find_longitude_index call, a query equal
\* to an interior grid value included, resolves against the reversed axis to
\* the mirrored index len(axis) - i, which brackets the same cell.
C2_MirroredForEveryQuery ==
    (Returned(1) /\ func[1] = "find_longitude_index") =>
        LET rev == Reverse(coord_list)
            r == find_longitude_index(arg[1], rev)
        IN  /\ ~r.raised
            /\ r.index = Len(coord_list) - index[1]
            /\ Bracket(rev, r.index) = Bracket(coord_list, index[1])

\* C2 amended: a successful find_longitude_index call also succeeds on the
\* reversed axis; unless the normalized query equals an interior grid value
\* the index is mirrored (len(axis) - i) and brackets the same cell; for an
\* interior grid value the reversed axis gives len(axis) - i + 1, the
\* neighbouring cell on the other side of that grid line, and both cells
\* contain the query.
C2_MirroredOffGridLines ==
    (Returned(1) /\ func[1] = "find_longitude_index") =>
        LET rev == Reverse(coord_list)
            r == find_longitude_index(arg[1], rev)
            n == Len(coord_list)
        IN  /\ ~r.raised
            /\ r.lon = lon[1]
            /\ IF InteriorGridValue(coord_list, lon[1])
               THEN /\ r.index = n - index[1] + 1
                    /\ lon[1] \in Bracket(rev, r.index)
                    /\ lon[1] \in Bracket(coord_list, index[1])
                    /\ Bracket(rev, r.index) # Bracket(coord_list, index[1])
               ELSE /\ r.index = n - index[1]
                    /\ Bracket(rev, r.index) = Bracket(coord_list, index[1])

\* a query strictly inside a cell of a descending axis of three or more values
C2_Witness ==
    /\ Returned(1)
    /\ func[1] = "find_longitude_index"
    /\ ~IsSorted(coord_list)
    /\ Len(coord_list) >= 3
    /\ lon[1] \notin {coord_list[j] : j \in 1..Len(coord_list)}
    /\ index[1] >= 2

\* C3: on every successful return the index i satisfies
\* 1 <= i <= len(axis) - 1 and the (normalized) query lies between
\* axis[i-1] and axis[i] inclusive, for ascending and descending axes.
C3_IndexBracketsQuery ==
    Returned(1) =>
        /\ 1 <= index[1]
        /\ index[1] <= Len(coord_list) - 1
        /\ Between(lon[1], At(coord_list, index[1] - 1), At(coord_list, index[1]))

\* a descending axis, the query strictly inside its last cell
C3_Witness ==
    /\ Returned(1)
    /\ ~IsSorted(coord_list)
    /\ index[1] = Len(coord_list) - 1
    /\ lon[1] > Last(coord_list)
    /\ lon[1] < At(coord_list, index[1] - 1)

\* C4: find_longitude_index returns a longitude in the axis's convention
\* ([-180, 180] when the first or last axis element is negative, [0, 360)
\* otherwise) that differs from the query longitude by a multiple of 360.
C4_NormalizedSameMeridian ==
    (Returned(1) /\ func[1] = "find_longitude_index") =>
        /\ IF UsesNegativeConvention(coord_list)
           THEN -180 <= lon[1] /\ lon[1] <= 180
           ELSE 0 <= lon[1] /\ lon[1] < 360
        /\ (lon[1] - arg[1]) % 360 = 0

ScenarioAxis == <<-180, -90, 0, 90, 180>>

ScenarioCall ==
    /\ Called(1)
    /\ func[1] = "find_longitude_index"
    /\ coord_list = ScenarioAxis
    /\ arg[1] = 45

\* C5 as stated: axis [-180,-90,0,90,180], query 45: normalized longitude
\* 45 and lon_index 4, with axis[index-1] = 0 and axis[index] = 90.
C5_ScenarioIndexFour ==
    ScenarioCall =>
        /\ outcome[1] = "returned"
        /\ lon[1] = 45
        /\ index[1] = 4
        /\ At(coord_list, index[1] - 1) = 0
        /\ At(coord_list, index[1]) = 90

\* C5 amended: axis [-180,-90,0,90,180], query 45: normalized longitude 45
\* and lon_index 3, with axis[2] = 0 and axis[3] = 90.
C5_ScenarioIndexThree ==
    ScenarioCall =>
        /\ outcome[1] = "returned"
        /\ lon[1] = 45
        /\ index[1] = 3
        /\ At(coord_list, index[1] - 1) = 0
        /\ At(coord_list, index[1]) = 90

C5_Witness == ScenarioCall /\ outcome[1] = "returned"

----------------------------------------------------------------------------
(* Two callers sharing one list object, each call running statement by    *)
(* statement (a thread switch may fall between any two statements)        *)

ThreadAxes == {<<0, 90, 180>>, <<180, 90, 0>>, <<-90, 0, 90>>, <<90, 0, -90>>}

ThreadQueries == {-45, 45, 90, 135}

InitThreads ==
    /\ coord_list \in ThreadAxes
    /\ given_list = coord_list
    /\ NoCall
    /\ TimeIdle
    /\ MaskIdle
    /\ FieldIdle
    /\ TankIdle
    /\ MotorIdle
    /\ SensorIdle
    /\ IntervalIdle
    /\ warnings = <<>>

\* the call is entered; find_longitude_index first converts the longitude
Enter(p) ==
    /\ pc[p] = "idle"
    /\ \E f \in Functions, x \in ThreadQueries :
        /\ func' = [func EXCEPT ![p] = f]
        /\ arg' = [arg EXCEPT ![p] = x]
        /\ lon' = [lon EXCEPT ![p] =
                     IF f = "find_longitude_index"
                     THEN NormalizeLongitude(x, coord_list)
                     ELSE x]
    /\ pc' = [pc EXCEPT ![p] = "check_order"]
    /\ UNCHANGED <<coord_list, given_list, index, outcome, nonGridVars>>

\* if lon_list[0] < lon_list[-1]
CheckOrder(p) ==
    /\ pc[p] = "check_order"
    /\ pc' = [pc EXCEPT ![p] = IF IsSorted(coord_list) THEN "bisect" ELSE "reverse"]
    /\ UNCHANGED <<coord_list, given_list, func, arg, lon, index, outcome, nonGridVars>>

\* lon_index = bisect.bisect(lon_list, lon)
BisectSorted(p) ==
    /\ pc[p] = "bisect"
    /\ index' = [index EXCEPT ![p] = Bisect(coord_list, lon[p])]
    /\ pc' = [pc EXCEPT ![p] = "fix_up"]
    /\ UNCHANGED <<coord_list, given_list, func, arg, lon, outcome, nonGridVars>>

\* lon_list.reverse()
ReverseList(p) ==
    /\ pc[p] = "reverse"
    /\ coord_list' = Reverse(coord_list)
    /\ pc' = [pc EXCEPT ![p] = "mirror"]
    /\ UNCHANGED <<given_list, func, arg, lon, index, outcome, nonGridVars>>

\* lon_index = len(lon_list) - bisect.bisect_left(lon_list, lon)
BisectMirrored(p) ==
    /\ pc[p] = "mirror"
    /\ index' = [index EXCEPT ![p] = MirroredIndex(coord_list, lon[p])]
    /\ pc' = [pc EXCEPT ![p] = "restore"]
    /\ UNCHANGED <<coord_list, given_list, func, arg, lon, outcome, nonGridVars>>

\* lon_list.reverse(), the second one
RestoreList(p) ==
    /\ pc[p] = "restore"
    /\ coord_list' = Reverse(coord_list)
    /\ pc' = [pc EXCEPT ![p] = "fix_up"]
    /\ UNCHANGED <<given_list, func, arg, lon, index, outcome, nonGridVars>>

\* if lon_index == len(lon_list) and lon_list[lon_index - 1] == lon
FixUpIndex(p) ==
    /\ pc[p] = "fix_up"
    /\ index' = [index EXCEPT ![p] = FixUp(coord_list, index[p], lon[p])]
    /\ pc' = [pc EXCEPT ![p] = "check_range"]
    /\ UNCHANGED <<coord_list, given_list, func, arg, lon, outcome, nonGridVars>>

\* if lon_index == 0 or lon_index == len(lon_list): raise; else return
CheckRange(p) ==
    /\ pc[p] = "check_range"
    /\ outcome' = [outcome EXCEPT ![p] =
                     IF OutsideGrid(coord_list, index[p]) THEN "raised" ELSE "returned"]
    /\ pc' = [pc EXCEPT ![p] = "done"]
    /\ UNCHANGED <<coord_list, given_list, func, arg, lon, index, nonGridVars>>

NextThreads ==
    \E p \in Callers :
        \/ Enter(p)
        \/ CheckOrder(p)
        \/ BisectSorted(p)
        \/ ReverseList(p)
        \/ BisectMirrored(p)
        \/ RestoreList(p)
        \/ FixUpIndex(p)
        \/ CheckRange(p)

SpecThreads == InitThreads /\ [][NextThreads]_vars

\* what the call of caller p gives when it runs alone on the caller's list
Alone(p) ==
    IF func[p] = "find_longitude_index"
    THEN find_longitude_index(arg[p], given_list)
    ELSE find_latitude_index(arg[p], given_list)

\* C6: find_longitude_index and find_latitude_index are pure functions of
\* (query, axis): the caller's list is never in another order during a
\* call, so each of two calls interleaved on one shared list finishes with
\* exactly the result (value, index, return or raise) it has when run alone.
C6_InterleavedCallsAgreeWithAlone ==
    \A p \in Callers :
        Called(p) =>
            /\ lon[p] = Alone(p).lon
            /\ index[p] = Alone(p).index
            /\ (outcome[p] = "raised") = Alone(p).raised

\* the first half of C6 on its own: while a call is running the shared list
\* is in the order the caller gave it
C6_ListOrderKeptDuringCall ==
    (\E p \in Callers : pc[p] \notin {"idle", "done"}) => coord_list = given_list

----------------------------------------------------------------------------
(* find_time_index.  A datetime is [day, hour]; the time variable counts   *)
(* hours since the reference datetime of its units ("hours since ...").    *)

\* longest time axis
MaxTimeLen == 3
\* largest time value (hours since the reference datetime)
MaxTimeNum == 6
\* last day a query datetime may fall on
MaxDay == 1

HoursPerDay == 24

HoursOf(d) == HoursPerDay * d.day + d.hour

\* netCDF4.date2num(date, units, calendar="gregorian")
Date2Num(date, units) == HoursOf(date) - HoursOf(units)

\* netCDF4.num2date(num, units, calendar="gregorian")
Num2Date(num, units) ==
    LET h == num + HoursOf(units)
    IN  [day |-> h \div HoursPerDay, hour |-> h % HoursPerDay]

Distance(u, v) == IF u <= v THEN v - u ELSE u - v

\* netCDF4.date2index(date, time_array, select="nearest"): the indices of
\* the samples closest to the date (two when the date is half way)
Date2IndexNearest(date, nctime) ==
    LET num == Date2Num(date, nctime.units)
    IN  {i \in 0..(Len(nctime.values) - 1) :
            \A j \in 0..(Len(nctime.values) - 1) :
                Distance(At(nctime.values, i), num)
                    <= Distance(At(nctime.values, j), num)}

\* the first check with <= in the place of <
BeforeStart_OrEqual(i, input_time_num, file_time_num) ==
    i = 0 /\ input_time_num <= file_time_num

\* time_index == 0 and input_time_num < file_time_num
BeforeStart(i, input_time_num, file_time_num) ==
    i = 0 /\ input_time_num < file_time_num

\* time_index == len(time_array) - 1 and input_time_num > file_time_num
AfterEnd(i, n, input_time_num, file_time_num) ==
    i = n - 1 /\ input_time_num > file_time_num

\* the exactness check noticing only a later launch time
NotExact_OnlyLater(input_time_num, file_time_num) == input_time_num > file_time_num

\* input_time_num != file_time_num
NotExact(input_time_num, file_time_num) == input_time_num # file_time_num

StartError(file_time_date) ==
    [type |-> "ValueError", text |-> "starts at", date |-> file_time_date]

EndError(file_time_date) ==
    [type |-> "ValueError", text |-> "ends at", date |-> file_time_date]

NearestWarning(file_time_date) ==
    [text |-> "using instead", date |-> file_time_date]

GridIdle ==
    /\ coord_list = <<>>
    /\ given_list = <<>>
    /\ NoCall

References == {[day |-> 0, hour |-> 0], [day |-> 0, hour |-> 22]}

TimeValueSets ==
    {S \in SUBSET (0..MaxTimeNum) : Cardinality(S) >= 1 /\ Cardinality(S) <= MaxTimeLen}

TimeArrays == {[units |-> u, values |-> Ascending(S)] : u \in References, S \in TimeValueSets}

Datetimes == {[day |-> d, hour |-> h] : d \in 0..MaxDay, h \in 0..(HoursPerDay - 1)}

InitTime ==
    /\ time_array \in TimeArrays
    /\ datetime_date \in Datetimes
    /\ time_index = 0
    /\ time_call = "ready"
    /\ error = NoError
    /\ warnings = <<>>
    /\ GridIdle
    /\ MaskIdle
    /\ FieldIdle
    /\ TankIdle
    /\ MotorIdle
    /\ SensorIdle
    /\ IntervalIdle

FindTimeIndex ==
    /\ time_call = "ready"
    /\ \E i \in Date2IndexNearest(datetime_date, time_array) :
        LET input_time_num == Date2Num(datetime_date, time_array.units)
            file_time_num == At(time_array.values, i)
            file_time_date == Num2Date(file_time_num, time_array.units)
        IN  /\ time_index' = i
            /\ IF BeforeStart(i, input_time_num, file_time_num)
               THEN /\ error' = StartError(file_time_date)
                    /\ time_call' = "raised"
                    /\ UNCHANGED warnings
               ELSE IF AfterEnd(i, Len(time_array.values), input_time_num, file_time_num)
               THEN /\ error' = EndError(file_time_date)
                    /\ time_call' = "raised"
                    /\ UNCHANGED warnings
               ELSE /\ warnings' = IF NotExact(input_time_num, file_time_num)
                                   THEN Append(warnings, NearestWarning(file_time_date))
                                   ELSE warnings
                    /\ time_call' = "returned"
                    /\ UNCHANGED error
    /\ UNCHANGED <<time_array, datetime_date, gridVars, maskVars, fieldVars, tankVars, laterVars>>

NextTime == FindTimeIndex

SpecTime == InitTime /\ [][NextTime]_vars

\* the query and the axis ends in the axis's numeric encoding
QueryNum == Date2Num(datetime_date, time_array.units)

FirstNum == At(time_array.values, 0)

LastNum == Last(time_array.values)

TimeCalled == time_call \in {"returned", "raised"}

IsNearest(i) ==
    \A j \in 1..Len(time_array.values) :
        Distance(At(time_array.values, i), QueryNum)
            <= Distance(time_array.values[j], QueryNum)

----------------------------------------------------------------------------
(* mask_and_clean_dataset.  A masked array is a sequence of entries        *)
(* [data, mask]; the data of column c, row i is the label <<c, i>>, so a   *)
(* returned row shows which input row its values came from.                *)

\* most rows of an input array
MaxRows == 5
\* most arrays passed in one call
MaxCols == 2

\* np.ma.column_stack(list(args)): row i holds entry i of every array
ColumnStack(arrays) ==
    IF Len(arrays) = 0 THEN <<>>
    ELSE [i \in 1..Len(arrays[1]) |-> [c \in 1..Len(arrays) |-> arrays[c][i]]]

RowMasked(row) == \E c \in 1..Len(row) : row[c].mask

\* the mask test looking at the first column only
AnyMasked_FirstColumn(rows) == \E i \in 1..Len(rows) : rows[i][1].mask

\* np.any(data_array.mask)
AnyMasked(rows) == \E i \in 1..Len(rows) : RowMasked(rows[i])

\* compress_rows dropping a row only when all of its entries are masked
CompressRows_AllMasked(rows) ==
    LET Keep(row) == \E c \in 1..Len(row) : ~row[c].mask
    IN  SelectSeq(rows, Keep)

\* np.ma.compress_rows: the rows with no masked entry, in order
RECURSIVE CompressRows(_)
CompressRows(rows) ==
    IF rows = <<>> THEN <<>>
    ELSE IF RowMasked(Head(rows))
         THEN CompressRows(Tail(rows))
         ELSE <<Head(rows)>> \o CompressRows(Tail(rows))

MissingValuesWarning == [text |-> "Some values were missing"]

\* k masked arrays of n rows with the masks m
MaskedArrays(k, n, m) ==
    [c \in 1..k |-> [i \in 1..n |-> [data |-> <<c, i>>, mask |-> m[c][i]]]]

InitMask ==
    /\ \E k \in 1..MaxCols, n \in 1..MaxRows :
          \E m \in [1..k -> [1..n -> BOOLEAN]] : args = MaskedArrays(k, n, m)
    /\ data_array = <<>>
    /\ mask_call = "ready"
    /\ warnings = <<>>
    /\ GridIdle
    /\ TimeIdle
    /\ FieldIdle
    /\ TankIdle
    /\ MotorIdle
    /\ SensorIdle
    /\ IntervalIdle

MaskAndCleanDataset ==
    /\ mask_call = "ready"
    /\ LET stacked == ColumnStack(args)
       IN  IF AnyMasked(stacked)
           THEN /\ data_array' = CompressRows(stacked)
                /\ warnings' = Append(warnings, MissingValuesWarning)
           ELSE /\ data_array' = stacked
                /\ UNCHANGED warnings
    /\ mask_call' = "returned"
    /\ UNCHANGED <<args, gridVars, timeVars, fieldVars, tankVars, laterVars>>

NextMask == MaskAndCleanDataset

SpecMask == InitMask /\ [][NextMask]_vars

Rows == 1..Len(args[1])

Cols == 1..Len(args)

\* the input rows in which at least one column is masked
MaskedRows == {i \in Rows : \E c \in Cols : args[c][i].mask}

\* the input row a returned row came from, read off its first column
RowOf(j) == data_array[j][1].data[2]

\* C9: mask_and_clean_dataset returns the column-stack of its inputs with
\* exactly the rows removed in which at least one column is masked; every
\* surviving row holds the values of one original row across all columns,
\* and the surviving rows keep their relative order.
C9_ExactlyMaskedRowsRemoved ==
    mask_call = "returned" =>
        /\ Len(data_array) = Cardinality(Rows \ MaskedRows)
        /\ {RowOf(j) : j \in 1..Len(data_array)} = Rows \ MaskedRows
        /\ \A j \in 1..Len(data_array) :
              /\ Len(data_array[j]) = Len(args)
              /\ \A c \in Cols : data_array[j][c].data = args[c][RowOf(j)].data
        /\ \A j \in 1..(Len(data_array) - 1) : RowOf(j) < RowOf(j + 1)

\* two columns, a row masked in the second column only is dropped and rows
\* before and after it survive
C9_Witness ==
    /\ mask_call = "returned"
    /\ Len(args) = 2
    /\ \E i \in Rows :
          /\ ~args[1][i].mask
          /\ args[2][i].mask
          /\ i > 1
          /\ i < Len(args[1])
          /\ MaskedRows = {i}
    /\ Len(data_array) = Len(args[1]) - 1

\* C10: exactly one warning per call when at least one input entry is
\* masked, however many rows are dropped; no warning, and all rows
\* returned, when nothing is masked; two arrays of length 5 with one row
\* (row 2) masked in one array give a 4-row array and exactly one warning.
C10_OneWarningWhenMasked ==
    mask_call = "returned" =>
        /\ MaskedRows # {} => warnings = <<MissingValuesWarning>>
        /\ MaskedRows = {} =>
              (warnings = <<>> /\ Len(data_array) = Len(args[1]))
        /\ (Len(args) = 2 /\ Len(args[1]) = 5 /\ Cardinality(MaskedRows) = 1) =>
              (Len(data_array) = 4 /\ Len(warnings) = 1)

\* the scenario: two arrays of length 5, row 2 (counted from 0) masked in
\* one of them
C10_Witness ==
    /\ mask_call = "returned"
    /\ Len(args) = 2
    /\ Len(args[1]) = 5
    /\ MaskedRows = {3}
    /\ args[1][3].mask # args[2][3].mask
    /\ Len(data_array) = 4
    /\ Len(warnings) = 1

----------------------------------------------------------------------------
(* find_latitude_index against find_longitude_index *)

\* the conversion of find_longitude_index leaves the query as it is
NormalizationIsIdentity == NormalizeLongitude(arg[1], coord_list) = arg[1]

\* what the other of the two functions answers for the same query and axis
OtherFunction ==
    IF func[1] = "find_latitude_index"
    THEN find_longitude_index(arg[1], coord_list)
    ELSE find_latitude_index(arg[1], coord_list)

\* C14: find_latitude_index returns the latitude it was given unchanged,
\* and for every axis and query on which the longitude normalization is the
\* identity, find_latitude_index and find_longitude_index either both raise
\* or both return the same index.
C14_LatitudeAgreesWithLongitude ==
    /\ (Returned(1) /\ func[1] = "find_latitude_index") => lon[1] = arg[1]
    /\ (Called(1) /\ NormalizationIsIdentity) =>
           /\ Raised(1) <=> OtherFunction.raised
           /\ Returned(1) => index[1] = OtherFunction.index

\* a latitude found on a descending axis, strictly between two grid values
C14_Witness ==
    /\ Returned(1)
    /\ func[1] = "find_latitude_index"
    /\ At(coord_list, 0) > Last(coord_list)
    /\ NormalizationIsIdentity
    /\ arg[1] \notin {coord_list[i] : i \in 1..Len(coord_list)}
    /\ index[1] = find_longitude_index(arg[1], coord_list).index

----------------------------------------------------------------------------
(***************************************************************************)
(* The field sampler: apply_bilinear_interpolation,                        *)
(* apply_bilinear_interpolation_ensemble, get_elevation_data_from_dataset  *)
(* and get_pressure_levels_from_file.                                      *)
(*                                                                         *)
(* A numpy array is [ndim, el]: el is a number when ndim = 0 and a         *)
(* sequence of the elements along the first axis otherwise.  A float       *)
(* quotient is kept exact as [num, den].                                   *)
(***************************************************************************)

\* coordinates x, y, x1, x2, y1, y2 are whole numbers in 0..MaxCoord
MaxCoord == 2
\* longest pressure-level axis of a field
MaxLevels == 2
\* largest number of ensemble members of a field
MaxMembers == 2

\* the interpolation formula for one set of four corner values
Interpolate(x, y, x1, x2, y1, y2, z11, z12, z21, z22) ==
    [num |-> z11 * (x2 - x) * (y2 - y) + z21 * (x - x1) * (y2 - y)
             + z12 * (x2 - x) * (y - y1) + z22 * (x - x1) * (y - y1),
     den |-> (x2 - x1) * (y2 - y1)]

\* rocketpy.tools.bilinear_interpolation, element by element over arrays of
\* one shape (numpy arithmetic)
bilinear_interpolation(x, y, x1, x2, y1, y2, z11, z12, z21, z22) ==
    [ndim |-> z11.ndim,
     el |-> CASE z11.ndim = 0 ->
                   Interpolate(x, y, x1, x2, y1, y2, z11.el, z12.el, z21.el, z22.el)
              [] z11.ndim = 1 ->
                   [k \in 1..Len(z11.el) |->
                       Interpolate(x, y, x1, x2, y1, y2,
                                   z11.el[k], z12.el[k], z21.el[k], z22.el[k])]
              [] z11.ndim = 2 ->
                   [k \in 1..Len(z11.el) |-> [l \in 1..Len(z11.el[k]) |->
                       Interpolate(x, y, x1, x2, y1, y2,
                                   z11.el[k][l], z12.el[k][l], z21.el[k][l], z22.el[k][l])]]]

IndexError == [type |-> "IndexError", text |-> "too many indices for array"]

Returns(value) == [status |-> "returned", value |-> value]

Raises(e) == [status |-> "raised", error |-> e]

\* the length of axis 1 of an array of at least two dimensions
SecondAxisLen(data) == Len(data.el[1])

\* data[:, i, j] raises IndexError
FirstAxisSliceFails(data, i, j) ==
    \/ data.ndim < 3
    \/ data.ndim = 4 /\ i >= SecondAxisLen(data)

\* data[:, i, j]
FirstAxisSlice(data, i, j) ==
    [ndim |-> data.ndim - 2,
     el |-> [k \in 1..Len(data.el) |-> data.el[k][i + 1][j + 1]]]

\* data[:, :, i, j] raises IndexError
TwoAxesSliceFails(data, i, j) == data.ndim < 4

\* data[:, :, i, j]
TwoAxesSlice(data, i, j) ==
    [ndim |-> data.ndim - 2,
     el |-> [k \in 1..Len(data.el) |->
               [l \in 1..Len(data.el[k]) |-> data.el[k][l][i + 1][j + 1]]]]

\* the call with the corner entries data[:, 0, 1] and data[:, 1, 0] exchanged
apply_bilinear_interpolation_Swapped(x, y, x1, x2, y1, y2, data) ==
    IF FirstAxisSliceFails(data, 0, 0) \/ FirstAxisSliceFails(data, 1, 1)
    THEN Raises(IndexError)
    ELSE Returns(bilinear_interpolation(x, y, x1, x2, y1, y2,
                      FirstAxisSlice(data, 0, 0), FirstAxisSlice(data, 1, 0),
                      FirstAxisSlice(data, 0, 1), FirstAxisSlice(data, 1, 1)))

apply_bilinear_interpolation(x, y, x1, x2, y1, y2, data) ==
    IF FirstAxisSliceFails(data, 0, 0) \/ FirstAxisSliceFails(data, 1, 1)
    THEN Raises(IndexError)
    ELSE Returns(bilinear_interpolation(x, y, x1, x2, y1, y2,
                      FirstAxisSlice(data, 0, 0), FirstAxisSlice(data, 0, 1),
                      FirstAxisSlice(data, 1, 0), FirstAxisSlice(data, 1, 1)))

apply_bilinear_interpolation_ensemble(x, y, x1, x2, y1, y2, data) ==
    IF TwoAxesSliceFails(data, 0, 0)
    THEN Raises(IndexError)
    ELSE Returns(bilinear_interpolation(x, y, x1, x2, y1, y2,
                      TwoAxesSlice(data, 0, 0), TwoAxesSlice(data, 0, 1),
                      TwoAxesSlice(data, 1, 0), TwoAxesSlice(data, 1, 1)))

KeyError(key) == [type |-> "KeyError", key |-> key]

\* a ValueError raised without its cause
ValueErrorFrom_Unchained(text, e) ==
    [type |-> "ValueError", text |-> text, cause |-> [type |-> "none"]]

\* raise ValueError(text) from e
ValueErrorFrom(text, e) == [type |-> "ValueError", text |-> text, cause |-> e]

\* data.variables[dictionary[name]]: the variable, or the KeyError of the
\* subscript that fails
Variable(data, dictionary, name) ==
    IF name \notin DOMAIN dictionary
    THEN [raised |-> TRUE, error |-> KeyError(name)]
    ELSE IF dictionary[name] \notin DOMAIN data.variables
         THEN [raised |-> TRUE, error |-> KeyError(dictionary[name])]
         ELSE [raised |-> FALSE, value |-> data.variables[dictionary[name]]]

get_pressure_levels_from_file(data, dictionary) ==
    LET found == Variable(data, dictionary, "level")
    IN  IF found.raised
        THEN Raises(ValueErrorFrom("Unable to read pressure levels from file", found.error))
        ELSE Returns([ndim |-> 1,
                      el |-> [k \in 1..Len(found.value) |-> 100 * found.value[k]]])

\* variable[time_index, (lat_index - 1, lat_index), (lon_index - 1, lon_index)]
Elevations(variable, time_idx, lat_index, lon_index) ==
    [i \in 1..2 |-> [j \in 1..2 |->
        At(At(At(variable, time_idx), lat_index - 2 + i), lon_index - 2 + j)]]

Scalar(z) == [ndim |-> 0, el |-> z]

get_elevation_data_from_dataset(dictionary, data, time_idx, lat_index, lon_index, x, y, x1, x2, y1, y2) ==
    LET found == Variable(data, dictionary, "surface_geopotential_height")
        elevations == Elevations(found.value, time_idx, lat_index, lon_index)
    IN  IF found.raised
        THEN Raises(ValueErrorFrom("Unable to read surface elevation data", found.error))
        ELSE Returns(bilinear_interpolation(x, y, x1, x2, y1, y2,
                         Scalar(At(At(elevations, 0), 0)), Scalar(At(At(elevations, 0), 1)),
                         Scalar(At(At(elevations, 1), 0)), Scalar(At(At(elevations, 1), 1))))

(* Inputs *)

\* two sets of four corner values, data[i][j] for i, j in 0..1
Blocks == {<<<<1, 2>>, <<3, 4>>>>, <<<<8, 6>>, <<5, 7>>>>}

Shift(block, d) == [i \in 1..2 |-> [j \in 1..2 |-> block[i][j] + d]]

\* a 2x2 array, a stack of them over pressure levels, and a stack of those
\* over ensemble members; every entry of a field differs from the others
Fields ==
    {[ndim |-> 2, el |-> b] : b \in Blocks}
    \cup {[ndim |-> 3, el |-> [l \in 1..n |-> Shift(b, 10 * l)]] :
             b \in Blocks, n \in 1..MaxLevels}
    \cup {[ndim |-> 4,
           el |-> [e \in 1..m |-> [l \in 1..n |-> Shift(b, 100 * e + 10 * l)]]] :
             b \in Blocks, n \in 1..MaxLevels, m \in 1..MaxMembers}

\* distinct bracketing coordinates in either order and a query point
Coordinates ==
    {c \in [x : 0..MaxCoord, y : 0..MaxCoord, x1 : 0..MaxCoord, x2 : 0..MaxCoord,
            y1 : {0, MaxCoord}, y2 : {0, MaxCoord}] : c.x1 # c.x2 /\ c.y1 # c.y2}

LogicalNames == {"level", "surface_geopotential_height"}

DatasetKey(name) == IF name = "level" THEN "isobaric" ELSE "Geopotential_height_surface"

Dictionaries == {[name \in S |-> DatasetKey(name)] : S \in SUBSET LogicalNames}

\* pressure levels in mbar
LevelValues(n) == [k \in 1..n |-> 1000 - 150 * k]

\* surface geopotential height over (time, latitude, longitude)
ElevationGrid == [t \in 1..2 |-> [i \in 1..3 |-> [j \in 1..3 |-> 100 * t + 10 * i + j]]]

Datasets ==
    {[variables |-> [key \in K |-> IF key = "isobaric" THEN LevelValues(n) ELSE ElevationGrid]] :
        K \in SUBSET {DatasetKey(name) : name \in LogicalNames}, n \in 1..MaxLevels}

InitField ==
    /\ \/ \E c \in Coordinates, d \in Fields,
             f \in {"apply_bilinear_interpolation", "apply_bilinear_interpolation_ensemble"} :
             field_call = [function |-> f, x |-> c.x, y |-> c.y, x1 |-> c.x1, x2 |-> c.x2,
                           y1 |-> c.y1, y2 |-> c.y2, data |-> d]
       \/ \E c \in Coordinates, dictionary \in Dictionaries, d \in Datasets,
             t \in 0..1, i \in 1..2, j \in 1..2 :
             field_call = [function |-> "get_elevation_data_from_dataset",
                           dictionary |-> dictionary, data |-> d,
                           time_index |-> t, lat_index |-> i, lon_index |-> j,
                           x |-> c.x, y |-> c.y, x1 |-> c.x1, x2 |-> c.x2,
                           y1 |-> c.y1, y2 |-> c.y2]
       \/ \E dictionary \in Dictionaries, d \in Datasets :
             field_call = [function |-> "get_pressure_levels_from_file",
                           data |-> d, dictionary |-> dictionary]
    /\ field_result = [status |-> "ready"]
    /\ warnings = <<>>
    /\ GridIdle
    /\ TimeIdle
    /\ MaskIdle
    /\ TankIdle
    /\ MotorIdle
    /\ SensorIdle
    /\ IntervalIdle

FieldCalled(f) == field_call.function = f /\ field_result.status = "ready"

ApplyBilinearInterpolation ==
    /\ FieldCalled("apply_bilinear_interpolation")
    /\ field_result' = apply_bilinear_interpolation(
                           field_call.x, field_call.y, field_call.x1, field_call.x2,
                           field_call.y1, field_call.y2, field_call.data)
    /\ UNCHANGED <<field_call, nonFieldVars>>

ApplyBilinearInterpolationEnsemble ==
    /\ FieldCalled("apply_bilinear_interpolation_ensemble")
    /\ field_result' = apply_bilinear_interpolation_ensemble(
                           field_call.x, field_call.y, field_call.x1, field_call.x2,
                           field_call.y1, field_call.y2, field_call.data)
    /\ UNCHANGED <<field_call, nonFieldVars>>

GetElevationDataFromDataset ==
    /\ FieldCalled("get_elevation_data_from_dataset")
    /\ field_result' = get_elevation_data_from_dataset(
                           field_call.dictionary, field_call.data, field_call.time_index,
                           field_call.lat_index, field_call.lon_index,
                           field_call.x, field_call.y, field_call.x1, field_call.x2,
                           field_call.y1, field_call.y2)
    /\ UNCHANGED <<field_call, nonFieldVars>>

GetPressureLevelsFromFile ==
    /\ FieldCalled("get_pressure_levels_from_file")
    /\ field_result' = get_pressure_levels_from_file(field_call.data, field_call.dictionary)
    /\ UNCHANGED <<field_call, nonFieldVars>>

NextField ==
    \/ ApplyBilinearInterpolation
    \/ ApplyBilinearInterpolationEnsemble
    \/ GetElevationDataFromDataset
    \/ GetPressureLevelsFromFile

SpecField == InitField /\ [][NextField]_vars

(* Vocabulary of the claims about the field sampler *)

FieldReturned == field_result.status = "returned"

FieldRaised == field_result.status = "raised"

\* the query point of a sampling call is one of the four corners
AtCorner ==
    /\ field_call.function \in {"apply_bilinear_interpolation",
                                "apply_bilinear_interpolation_ensemble",
                                "get_elevation_data_from_dataset"}
    /\ field_call.x \in {field_call.x1, field_call.x2}
    /\ field_call.y \in {field_call.y1, field_call.y2}

\* the first (0 at x1, 1 at x2) and second (0 at y1, 1 at y2) index of the corner
CornerFirst == IF field_call.x = field_call.x1 THEN 0 ELSE 1

CornerSecond == IF field_call.y = field_call.y1 THEN 0 ELSE 1

\* the quotient q is the number z
Equals(q, z) == q.den # 0 /\ q.num = z * q.den

\* the 2x2 array the elevation lookup reads
ElevationCorners ==
    LET variable == field_call.data.variables[field_call.dictionary["surface_geopotential_height"]]
    IN  [i \in 1..2 |-> [j \in 1..2 |->
            variable[field_call.time_index + 1][field_call.lat_index - 1 + i]
                    [field_call.lon_index - 1 + j]]]

\* C11: with x1 # x2 and y1 # y2, sampling at a corner coordinate returns
\* exactly that corner's field value: data[..., 0, 0] at (x1, y1),
\* data[..., 0, 1] at (x1, y2), data[..., 1, 0] at (x2, y1) and
\* data[..., 1, 1] at (x2, y2), for every level of a stack of 2x2 arrays in
\* apply_bilinear_interpolation, every member and level in
\* apply_bilinear_interpolation_ensemble, and the 2x2 elevations of
\* get_elevation_data_from_dataset.
C11_CornerValueReturned ==
    (FieldReturned /\ AtCorner) =>
        CASE field_call.function = "apply_bilinear_interpolation" /\ field_call.data.ndim = 3 ->
                 \A k \in 1..Len(field_call.data.el) :
                     Equals(field_result.value.el[k],
                            field_call.data.el[k][CornerFirst + 1][CornerSecond + 1])
          [] field_call.function = "apply_bilinear_interpolation_ensemble"
               /\ field_call.data.ndim = 4 ->
                 \A e \in 1..Len(field_call.data.el) :
                     \A l \in 1..Len(field_call.data.el[e]) :
                         Equals(field_result.value.el[e][l],
                                field_call.data.el[e][l][CornerFirst + 1][CornerSecond + 1])
          [] field_call.function = "get_elevation_data_from_dataset" ->
                 Equals(field_result.value.el,
                        ElevationCorners[CornerFirst + 1][CornerSecond + 1])
          [] OTHER -> TRUE

\* a stack of two levels sampled at the corner (x1, y2) with x1 above x2
C11_Witness ==
    /\ FieldReturned
    /\ field_call.function = "apply_bilinear_interpolation"
    /\ Len(field_call.data.el) = 2
    /\ field_call.x = field_call.x1 /\ field_call.y = field_call.y2
    /\ field_call.x1 > field_call.x2
    /\ Equals(field_result.value.el[2], field_call.data.el[2][1][2])

\* the scalar interpolation of one 2x2 set of corner values at the query point
ScalarInterpolation(corners) ==
    Interpolate(field_call.x, field_call.y, field_call.x1, field_call.x2,
                field_call.y1, field_call.y2,
                corners[1][1], corners[1][2], corners[2][1], corners[2][2])

\* C12: apply_bilinear_interpolation accepts one 2x2 array of corner values
\* and returns one interpolated value; apply_bilinear_interpolation_ensemble
\* accepts 2x2 arrays under one leading member axis and returns one value per
\* member, the scalar interpolation of that member's corner values.
C12_ScalarAndEnsembleShapes ==
    /\ (field_call.function = "apply_bilinear_interpolation"
          /\ field_call.data.ndim = 2 /\ field_result.status # "ready") =>
            /\ FieldReturned
            /\ field_result.value.ndim = 0
            /\ field_result.value.el = ScalarInterpolation(field_call.data.el)
    /\ (field_call.function = "apply_bilinear_interpolation_ensemble"
          /\ field_call.data.ndim = 3 /\ field_result.status # "ready") =>
            /\ FieldReturned
            /\ field_result.value.ndim = 1
            /\ \A e \in 1..Len(field_call.data.el) :
                   field_result.value.el[e] = ScalarInterpolation(field_call.data.el[e])

\* the logical variable the call asks for
RequestedName ==
    IF field_call.function = "get_pressure_levels_from_file"
    THEN "level" ELSE "surface_geopotential_height"

InDictionary == RequestedName \in DOMAIN field_call.dictionary

InDataset ==
    InDictionary /\ field_call.dictionary[RequestedName] \in DOMAIN field_call.data.variables

\* the key whose lookup fails
OffendingKey == IF InDictionary THEN field_call.dictionary[RequestedName] ELSE RequestedName

\* C13: when the requested logical variable ("level" for pressure levels,
\* "surface_geopotential_height" for elevation) is absent from the schema
\* dictionary or from the dataset, the call raises a ValueError that carries
\* the KeyError of the offending key as its cause, and returns no value.
C13_MissingVariableIsFatal ==
    (field_call.function \in {"get_pressure_levels_from_file", "get_elevation_data_from_dataset"}
       /\ field_result.status # "ready" /\ ~InDataset) =>
        /\ FieldRaised
        /\ "value" \notin DOMAIN field_result
        /\ field_result.error.type = "ValueError"
        /\ field_result.error.cause = KeyError(OffendingKey)

\* the dictionary names a dataset variable the file does not have
C13_Witness ==
    /\ field_call.function = "get_elevation_data_from_dataset"
    /\ InDictionary /\ ~InDataset
    /\ FieldRaised
    /\ field_result.error.cause.key = "Geopotential_height_surface"

----------------------------------------------------------------------------
(***************************************************************************)
(* The tank model (rocketpy.motors.LiquidMotor: MassBasedTank,             *)
(* UllageBasedTank, MassFlowRateBasedTank), as the specification           *)
(* describes it: the tests construct and evaluate the tanks.               *)
(*                                                                         *)
(* Times are whole seconds and masses whole units of 0.01 kg.  The         *)
(* geometry is a stack of sections of height 1 with a constant             *)
(* cross-sectional area each (pi * radius^2, in whole units).  Volumes,    *)
(* heights and centroids are exact quotients [num, den] in lowest terms    *)
(* with den > 0.                                                           *)
(***************************************************************************)

\* the primary inputs of a tank cover the times 0..MaxTime
MaxTime == 5
\* largest initial or supplied mass of the small tanks
MaxMass == 4
\* largest liquid flow rate of the small tanks
MaxRate == 2
\* most sections of a geometry profile
MaxSections == 2

Abs(n) == IF n < 0 THEN -n ELSE n

RECURSIVE GCD(_, _)
GCD(a, b) == IF b = 0 THEN a ELSE GCD(b, a % b)

\* the quotient n / d, d # 0
Ratio(n, d) ==
    LET g == GCD(Abs(n), Abs(d))
        s == IF d < 0 THEN -1 ELSE 1
    IN  [num |-> s * (n \div g), den |-> s * (d \div g)]

Whole(n) == [num |-> n, den |-> 1]

QAdd(a, b) == Ratio(a.num * b.den + b.num * a.den, a.den * b.den)

QMul(a, b) == Ratio(a.num * b.num, a.den * b.den)

\* a / b, b # 0
QDiv(a, b) == Ratio(a.num * b.den, a.den * b.num)

QLeq(a, b) == a.num * b.den <= b.num * a.den

Value(q) == [ok |-> TRUE, value |-> q]

Failure(e) == [ok |-> FALSE, error |-> e]

(* GeometryProfile *)

Top(geometry) == geometry.bottom + Len(geometry.areas)

\* (p + 1) times the integral of z^p * area(z) from the bottom to height h
\* of the first k sections, with the denominator h.den^(p + 1) left out
RECURSIVE MomentSum(_, _, _, _)
MomentSum(geometry, p, h, k) ==
    IF k = 0 THEN 0
    ELSE LET lo == (geometry.bottom + k - 1) * h.den
             hi == IF h.num < (geometry.bottom + k) * h.den
                   THEN h.num ELSE (geometry.bottom + k) * h.den
             power(z) == IF p = 0 THEN z ELSE z * z
         IN  MomentSum(geometry, p, h, k - 1)
             + (IF h.num > lo THEN geometry.areas[k] * (power(hi) - power(lo)) ELSE 0)

\* volume_between(bottom, h): the integral of the cross-sectional area
VolumeBelow(geometry, h) ==
    Ratio(MomentSum(geometry, 0, h, Len(geometry.areas)), h.den)

\* the integral of z * area(z) from the bottom to h
FirstMomentBelow(geometry, h) ==
    Ratio(MomentSum(geometry, 1, h, Len(geometry.areas)), 2 * h.den * h.den)

TotalVolume(geometry) == VolumeBelow(geometry, Whole(Top(geometry)))

\* the inversion without the edge cases: zero and full volume fail as well
HeightFromVolume_OpenEnds(geometry, volume) ==
    LET total == TotalVolume(geometry)
        full(k) == VolumeBelow(geometry, Whole(geometry.bottom + k))
    IN  IF ~ (QLeq(Whole(0), volume) /\ QLeq(volume, total))
           \/ volume.num = 0 \/ volume = total
        THEN Failure("OutOfRange")
        ELSE LET k == CHOOSE j \in 1..Len(geometry.areas) :
                          /\ ~ QLeq(volume, full(j - 1))
                          /\ QLeq(volume, full(j))
                 rest == QAdd(volume, QMul(Whole(-1), full(k - 1)))
             IN  Value(QAdd(Whole(geometry.bottom + k - 1),
                            QDiv(rest, Whole(geometry.areas[k]))))

\* height-from-volume inversion: OutOfRange for a negative volume or one
\* above the capacity, the bottom for zero, the top for the capacity, and
\* otherwise the root of VolumeBelow(h) = volume in the section holding it
HeightFromVolume(geometry, volume) ==
    LET total == TotalVolume(geometry)
        full(k) == VolumeBelow(geometry, Whole(geometry.bottom + k))
    IN  IF ~ (QLeq(Whole(0), volume) /\ QLeq(volume, total))
        THEN Failure("OutOfRange")
        ELSE IF volume.num = 0 THEN Value(Whole(geometry.bottom))
        ELSE IF volume = total THEN Value(Whole(Top(geometry)))
        ELSE LET k == CHOOSE j \in 1..Len(geometry.areas) :
                          /\ ~ QLeq(volume, full(j - 1))
                          /\ QLeq(volume, full(j))
                 rest == QAdd(volume, QMul(Whole(-1), full(k - 1)))
             IN  Value(QAdd(Whole(geometry.bottom + k - 1),
                            QDiv(rest, Whole(geometry.areas[k]))))

(* TankModel: the quantities of the tank self at a time t of the domain *)

InDomain(self, t) == 0 <= t /\ t <= self.t_end

\* the definite integral from 0 to t of a constant rate
Integral(rate, t) == rate * t

liquid_mass(self, t) ==
    CASE self.kind = "MassBased" -> Whole(At(self.liquid_mass_data, t))
      [] self.kind = "FlowRateBased" ->
             Whole(self.initial_liquid_mass
                   + Integral(self.liquid_in - self.liquid_out, t))
      [] self.kind = "UllageBased" ->
             QMul(Whole(self.liquid_density),
                  VolumeBelow(self.geometry, Whole(At(self.ullage_data, t))))

\* the gas mass that ignores the gas flows and the liquid level
gas_mass_InitialOnly(self, t) ==
    CASE self.kind = "MassBased" -> Whole(At(self.gas_mass_data, 0))
      [] self.kind = "FlowRateBased" -> Whole(self.initial_gas_mass)
      [] self.kind = "UllageBased" ->
             QMul(Whole(self.gas_density),
                  QAdd(TotalVolume(self.geometry),
                       QMul(Whole(-1),
                            VolumeBelow(self.geometry, Whole(At(self.ullage_data, 0))))))

gas_mass(self, t) ==
    CASE self.kind = "MassBased" -> Whole(At(self.gas_mass_data, t))
      [] self.kind = "FlowRateBased" ->
             Whole(self.initial_gas_mass + Integral(self.gas_in - self.gas_out, t))
      [] self.kind = "UllageBased" ->
             QMul(Whole(self.gas_density),
                  QAdd(TotalVolume(self.geometry),
                       QMul(Whole(-1),
                            VolumeBelow(self.geometry, Whole(At(self.ullage_data, t))))))

\* the flow-rate-based mass with the outflow added instead of subtracted
mass_OutflowAdded(self, t) ==
    CASE self.kind = "MassBased" ->
             Whole(At(self.liquid_mass_data, t) + At(self.gas_mass_data, t))
      [] self.kind = "FlowRateBased" ->
             Whole(self.initial_liquid_mass + self.initial_gas_mass
                   + Integral((self.liquid_in + self.gas_in)
                              + (self.liquid_out + self.gas_out), t))
      [] self.kind = "UllageBased" -> QAdd(liquid_mass(self, t), gas_mass(self, t))

\* MassBased sums the two supplied functions, FlowRateBased integrates
\* initial_mass + (rate_in - rate_out), UllageBased adds the liquid of the
\* ullage height and the gas of the remaining volume
mass(self, t) ==
    CASE self.kind = "MassBased" ->
             Whole(At(self.liquid_mass_data, t) + At(self.gas_mass_data, t))
      [] self.kind = "FlowRateBased" ->
             Whole(self.initial_liquid_mass + self.initial_gas_mass
                   + Integral((self.liquid_in + self.gas_in)
                              - (self.liquid_out + self.gas_out), t))
      [] self.kind = "UllageBased" -> QAdd(liquid_mass(self, t), gas_mass(self, t))

\* the flow-rate-based rate with the gas flows left out
net_mass_flow_rate_LiquidOnly(self, t) ==
    IF self.kind = "FlowRateBased"
    THEN Whole(self.liquid_in - self.liquid_out)
    ELSE IF t < self.t_end
         THEN QAdd(mass(self, t + 1), QMul(Whole(-1), mass(self, t)))
         ELSE QAdd(mass(self, t), QMul(Whole(-1), mass(self, t - 1)))

\* FlowRateBased returns the four rates combined; the other variants
\* differentiate mass(t) (the difference to the next sample, at the end of
\* the domain to the previous one)
net_mass_flow_rate(self, t) ==
    IF self.kind = "FlowRateBased"
    THEN Whole(self.liquid_in + self.gas_in - self.liquid_out - self.gas_out)
    ELSE IF t < self.t_end
         THEN QAdd(mass(self, t + 1), QMul(Whole(-1), mass(self, t)))
         ELSE QAdd(mass(self, t), QMul(Whole(-1), mass(self, t - 1)))

liquid_volume(self, t) == QDiv(liquid_mass(self, t), Whole(self.liquid_density))

liquid_height(self, t) == HeightFromVolume(self.geometry, liquid_volume(self, t))

\* the centroid of the column between heights lo and hi: the integral of
\* z * area(z) divided by the volume; an empty column has its centroid at lo
Centroid(geometry, lo, hi) ==
    LET volume == QAdd(VolumeBelow(geometry, hi), QMul(Whole(-1), VolumeBelow(geometry, lo)))
        moment == QAdd(FirstMomentBelow(geometry, hi),
                       QMul(Whole(-1), FirstMomentBelow(geometry, lo)))
    IN  IF volume.num = 0 THEN lo ELSE QDiv(moment, volume)

\* UllageBasedTank.centerOfMass as test_ullage_based_motor expects it: the
\* centroid of the liquid column alone (3, 2.5, 2, .. for the ullage
\* heights 6, 5, 4, ..), with no share of the gas above it
ullage_center_of_mass(self, t) ==
    Value(Centroid(self.geometry, Whole(self.geometry.bottom),
                   Whole(At(self.ullage_data, t))))

\* the mass-weighted average of the centroids of the liquid and gas
\* columns; the ullage-based tank answers what its test expects
center_of_mass(self, t) ==
    LET height == liquid_height(self, t)
        m_liquid == liquid_mass(self, t)
        m_gas == gas_mass(self, t)
        total == QAdd(m_liquid, m_gas)
        com_liquid == Centroid(self.geometry, Whole(self.geometry.bottom), height.value)
        com_gas == Centroid(self.geometry, height.value, Whole(Top(self.geometry)))
    IN  IF self.kind = "UllageBased" THEN ullage_center_of_mass(self, t)
        ELSE IF ~ height.ok THEN height
        ELSE IF total.num = 0 THEN Failure("ZeroDivisionError")
        ELSE Value(QDiv(QAdd(QMul(m_liquid, com_liquid), QMul(m_gas, com_gas)), total))

\* the second moments of the liquid and gas columns about the combined
\* center of mass, kept as the axis and the limits of the two integrals
inertia_tensor(self, t) ==
    LET com == center_of_mass(self, t)
        height == liquid_height(self, t)
    IN  IF ~ com.ok THEN com
        ELSE IF ~ height.ok THEN height
        ELSE Value([axis |-> com.value,
                    liquid |-> <<Whole(self.geometry.bottom), height.value>>,
                    gas |-> <<height.value, Whole(Top(self.geometry))>>])

OutputNames ==
    {"mass", "net_mass_flow_rate", "liquid_volume", "liquid_height",
     "center_of_mass", "inertia_tensor"}

\* one output at a time of the domain
Output(self, name, t) ==
    CASE name = "mass" -> Value(mass(self, t))
      [] name = "net_mass_flow_rate" -> Value(net_mass_flow_rate(self, t))
      [] name = "liquid_volume" -> Value(liquid_volume(self, t))
      [] name = "liquid_height" -> liquid_height(self, t)
      [] name = "center_of_mass" -> center_of_mass(self, t)
      [] name = "inertia_tensor" -> inertia_tensor(self, t)

\* an accessor that clamps the time into the domain instead of failing
Accessor_Clamping(self, name, t) ==
    Output(self, name, IF t < 0 THEN 0 ELSE IF t > self.t_end THEN self.t_end ELSE t)

\* a read accessor: OutOfDomain outside the domain of the primary inputs
Accessor(self, name, t) ==
    IF InDomain(self, t) THEN Output(self, name, t) ELSE Failure("OutOfDomain")

(* Inputs *)

\* the densities of the liquid and of the gas
LiquidDensity == 2
GasDensity == 1

Geometries ==
    {[bottom |-> b, areas |-> a] :
        b \in {-1, 0}, a \in UNION {[1..n -> 1..2] : n \in 1..MaxSections}}

\* MassFlowRateBasedTank with the rates and initial masses of the tests, in
\* units of 0.01 kg (per second), in a cylinder of height 5
ScenarioTank ==
    [kind |-> "FlowRateBased",
     geometry |-> [bottom |-> 0, areas |-> <<100, 100, 100, 100, 100>>],
     liquid_density |-> LiquidDensity, gas_density |-> GasDensity, t_end |-> 5,
     initial_liquid_mass |-> 500, initial_gas_mass |-> 10,
     liquid_in |-> 10, liquid_out |-> 20, gas_in |-> 1, gas_out |-> 2]

\* UllageBasedTank of the tests: height 6, ullage 6, 5, .. 1 at the six samples
UllageTestTank ==
    [kind |-> "UllageBased",
     geometry |-> [bottom |-> 0, areas |-> <<1, 1, 1, 1, 1, 1>>],
     liquid_density |-> LiquidDensity, gas_density |-> GasDensity, t_end |-> 5,
     ullage_data |-> <<6, 5, 4, 3, 2, 1>>]

FlowRateTank(g, ml, mg, li, lo, gi, go) ==
    [kind |-> "FlowRateBased", geometry |-> g,
     liquid_density |-> LiquidDensity, gas_density |-> GasDensity, t_end |-> MaxTime,
     initial_liquid_mass |-> ml, initial_gas_mass |-> mg,
     liquid_in |-> li, liquid_out |-> lo, gas_in |-> gi, gas_out |-> go]

\* the samples a + b * t at the times 0..MaxTime, kept within lowest..highest
Samples(a, b, lowest, highest) ==
    [i \in 1..(MaxTime + 1) |->
        IF a + b * (i - 1) < lowest THEN lowest
        ELSE IF a + b * (i - 1) > highest THEN highest ELSE a + b * (i - 1)]

\* the liquid mass that fills the geometry
Capacity(g) == LiquidDensity * TotalVolume(g).num

MassTank(g, ml, slope, mg) ==
    [kind |-> "MassBased", geometry |-> g,
     liquid_density |-> LiquidDensity, gas_density |-> GasDensity, t_end |-> MaxTime,
     liquid_mass_data |-> Samples(ml, slope, 0, Capacity(g)),
     gas_mass_data |-> Samples(mg, 0, 0, mg)]

UllageTank(g, h, slope) ==
    [kind |-> "UllageBased", geometry |-> g,
     liquid_density |-> LiquidDensity, gas_density |-> GasDensity, t_end |-> MaxTime,
     ullage_data |-> Samples(h, slope, g.bottom, Top(g))]

InitTank ==
    /\ \/ tank \in {ScenarioTank, UllageTestTank}
       \/ \E g \in Geometries, ml \in 0..MaxMass, mg \in 0..1,
             li \in 0..MaxRate, lo \in 0..MaxRate, gi \in 0..1, go \in 0..1 :
             /\ ml <= Capacity(g)
             /\ tank = FlowRateTank(g, ml, mg, li, lo, gi, go)
       \/ \E g \in Geometries, ml \in 0..MaxMass, slope \in {-1, 0, 1}, mg \in 0..1 :
             /\ ml <= Capacity(g)
             /\ tank = MassTank(g, ml, slope, mg)
       \/ \E g \in Geometries, slope \in {-1, 0} :
             \E h \in g.bottom..Top(g) : tank = UllageTank(g, h, slope)
    /\ tank_t \in -1..(MaxTime + 1)
    /\ tank_out = <<>>
    /\ warnings = <<>>
    /\ GridIdle
    /\ TimeIdle
    /\ MaskIdle
    /\ FieldIdle
    /\ MotorIdle
    /\ SensorIdle
    /\ IntervalIdle

\* the caller reads every output of the tank at the time tank_t
ReadOutputs ==
    /\ tank.kind # "none"
    /\ tank_out = <<>>
    /\ tank_out' = [name \in OutputNames |-> Accessor(tank, name, tank_t)]
    /\ UNCHANGED <<tank, tank_t, nonTankVars>>

NextTank == ReadOutputs

SpecTank == InitTank /\ [][NextTank]_vars

(* Vocabulary of the claims about the tanks *)

TankRead == tank_out # <<>>

\* the outputs were read at a time of the domain
ReadInDomain == TankRead /\ InDomain(tank, tank_t)

\* the sum of the four rates over the seconds 1..t, second by second
RECURSIVE NetFlowSum(_)
NetFlowSum(t) ==
    IF t = 0 THEN 0
    ELSE NetFlowSum(t - 1) + tank.liquid_in + tank.gas_in - tank.liquid_out - tank.gas_out

\* C15: for a flow-rate-based tank and every t of the domain, mass(t) is
\* initial_liquid_mass + initial_gas_mass plus the integral from 0 to t of
\* the net mass flow rate; with the rates 0.1 / 0.2 / 0.01 / 0.02 and the
\* initial masses 5 and 0.1 (in units of 0.01 kg) mass(t) = 510 - 11 * t and
\* mass(5) = 455.
C15_MassIsInitialPlusNetFlow ==
    (ReadInDomain /\ tank.kind = "FlowRateBased") =>
        /\ tank_out["mass"] =
               Value(Whole(tank.initial_liquid_mass + tank.initial_gas_mass
                           + NetFlowSum(tank_t)))
        /\ tank = ScenarioTank => tank_out["mass"] = Value(Whole(510 - 11 * tank_t))
        /\ (tank = ScenarioTank /\ tank_t = 5) => tank_out["mass"] = Value(Whole(455))

C15_Witness ==
    /\ TankRead
    /\ tank = ScenarioTank
    /\ tank_t = 5
    /\ tank_out["mass"] = Value(Whole(455))

\* C16: for a flow-rate-based tank, net_mass_flow_rate(t) is
\* liquid_in + gas_in - liquid_out - gas_out at every t of the domain
\* (-0.11 kg/s, that is -11 units, in the scenario).
C16_NetRateIsSumOfTheFourRates ==
    (ReadInDomain /\ tank.kind = "FlowRateBased") =>
        /\ tank_out["net_mass_flow_rate"] =
               Value(Whole(tank.liquid_in + tank.gas_in - tank.liquid_out - tank.gas_out))
        /\ tank = ScenarioTank => tank_out["net_mass_flow_rate"] = Value(Whole(-11))

C16_Witness ==
    /\ TankRead
    /\ tank = ScenarioTank
    /\ tank_t = 3
    /\ tank_out["net_mass_flow_rate"] = Value(Whole(-11))

\* C17: for every tank variant and every t of the domain,
\* mass(t) = liquid_mass(t) + gas_mass(t).
C17_MassIsLiquidPlusGas ==
    ReadInDomain =>
        tank_out["mass"] = Value(QAdd(liquid_mass(tank, tank_t), gas_mass(tank, tank_t)))

\* the second sample of the ullage tank of the tests: mass 11 from 10 of
\* liquid and 1 of gas
C17_Witness ==
    /\ TankRead
    /\ tank = UllageTestTank
    /\ tank_t = 1
    /\ liquid_mass(tank, tank_t) = Whole(10)
    /\ gas_mass(tank, tank_t) = Whole(1)
    /\ tank_out["mass"] = Value(Whole(11))

\* C18: for every t of the domain, 0 <= liquid_volume(t) <= total tank
\* volume, also for a flow-rate-based tank with a constant liquid outflow
\* or inflow over the whole domain.
C18_LiquidVolumeWithinTank ==
    ReadInDomain =>
        /\ tank_out["liquid_volume"].ok
        /\ QLeq(Whole(0), tank_out["liquid_volume"].value)
        /\ QLeq(tank_out["liquid_volume"].value, TotalVolume(tank.geometry))

\* C19: every output read at a time outside the domain of the primary
\* inputs is the OutOfDomain error, never a value.
C19_OutOfDomainIsAnError ==
    (TankRead /\ ~ InDomain(tank, tank_t)) =>
        \A name \in {"mass", "net_mass_flow_rate", "liquid_height",
                     "center_of_mass", "inertia_tensor"} :
            /\ ~ tank_out[name].ok
            /\ tank_out[name].error = "OutOfDomain"

\* a tank with liquid in it read one second after the end of its domain
C19_Witness ==
    /\ TankRead
    /\ tank = ScenarioTank
    /\ tank_t = tank.t_end + 1
    /\ tank_out["mass"] = Failure("OutOfDomain")
    /\ tank_out["liquid_height"] = Failure("OutOfDomain")

\* the liquid mass is between nothing and what the tank holds
LiquidFits ==
    /\ QLeq(Whole(0), liquid_mass(tank, tank_t))
    /\ QLeq(liquid_mass(tank, tank_t),
            QMul(Whole(tank.liquid_density), TotalVolume(tank.geometry)))

\* every section of the geometry has the area of the first
ConstantRadius == \A k \in 1..Len(tank.geometry.areas) :
                      tank.geometry.areas[k] = tank.geometry.areas[1]

\* C20: when the liquid fits the tank, liquid_height(t) is the height h
\* with volume(bottom .. h) = liquid_mass(t) / liquid_density (for a
\* constant radius and bottom 0, h = liquid_mass / (density * area)); it is
\* the bottom coordinate for zero liquid mass and the top for a full tank,
\* both as values.
C20_HeightInvertsVolume ==
    (ReadInDomain /\ LiquidFits) =>
        LET height == tank_out["liquid_height"]
            m == liquid_mass(tank, tank_t)
        IN  /\ height.ok
            /\ VolumeBelow(tank.geometry, height.value)
                   = QDiv(m, Whole(tank.liquid_density))
            /\ (ConstantRadius /\ tank.geometry.bottom = 0) =>
                   height.value
                       = QDiv(m, Whole(tank.liquid_density * tank.geometry.areas[1]))
            /\ m.num = 0 => height.value = Whole(tank.geometry.bottom)
            /\ m = QMul(Whole(tank.liquid_density), TotalVolume(tank.geometry)) =>
                   height.value = Whole(Top(tank.geometry))

\* an emptied tank whose bottom is not at 0
C20_Witness ==
    /\ ReadInDomain
    /\ tank.kind = "FlowRateBased"
    /\ tank.initial_liquid_mass > 0
    /\ liquid_mass(tank, tank_t) = Whole(0)
    /\ tank.geometry.bottom = -1
    /\ tank_out["liquid_height"] = Value(Whole(-1))

\* the mass-weighted average of h / 2 and h + (H - h) / 2 in a cylinder of
\* height H with its bottom at 0, for the liquid height h read
CylinderAverage ==
    LET h == tank_out["liquid_height"].value
        H == Whole(Top(tank.geometry))
        m_liquid == liquid_mass(tank, tank_t)
        m_gas == gas_mass(tank, tank_t)
        com_liquid == QDiv(h, Whole(2))
        com_gas == QAdd(h, QDiv(QAdd(H, QMul(Whole(-1), h)), Whole(2)))
    IN  QDiv(QAdd(QMul(m_liquid, com_liquid), QMul(m_gas, com_gas)), QAdd(m_liquid, m_gas))

\* a cylinder with its bottom at 0 holding its liquid and some mass
CylinderRead ==
    /\ ReadInDomain
    /\ LiquidFits
    /\ ConstantRadius
    /\ tank.geometry.bottom = 0
    /\ QAdd(liquid_mass(tank, tank_t), gas_mass(tank, tank_t)).num > 0

\* C21 as stated: in a cylindrical tank center_of_mass(t) is
\* (m_liquid * h / 2 + m_gas * (h + (H - h) / 2)) / (m_liquid + m_gas) for
\* all three variants, the ullage-based tank included.
C21_CenterOfMassIsWeightedAverage ==
    CylinderRead =>
        /\ tank_out["center_of_mass"].ok
        /\ tank_out["center_of_mass"].value = CylinderAverage

\* the same for the mass-based and flow-rate-based tanks only
C21_WeightedAverageButUllage ==
    (CylinderRead /\ tank.kind # "UllageBased") =>
        /\ tank_out["center_of_mass"].ok
        /\ tank_out["center_of_mass"].value = CylinderAverage

----------------------------------------------------------------------------
(* The caller's list after a call, checked under Spec *)

\* C27: after find_longitude_index or find_latitude_index finishes, whether
\* it returns or raises the out-of-range ValueError, the caller's list holds
\* the same elements in the same order as before the call: the in-place
\* reversal of a descending list is undone.
C27_ListRestoredAfterCall ==
    Called(1) => coord_list = given_list

\* a descending list was searched by a call that raised ValueError, and by
\* one that returned
C27_Witness ==
    /\ Called(1)
    /\ ~IsSorted(given_list)
    /\ Len(given_list) >= 3
    /\ coord_list = given_list
    /\ coord_list # Reverse(given_list)
    /\ outcome[1] = "raised"

----------------------------------------------------------------------------
(* McSolidMotor (rocketpy/monte_carlo/mc_solid_motor.py): the root         *)
(* validator set_attr.  A Python value is a record naming its type: a      *)
(* number [type, v], a string [type, text], a tuple or a list [type, items].*)

\* longest tuple or list given for a field
MaxItems == 4

PyInt(n) == [type |-> "int", v |-> n]

PyFloat(n) == [type |-> "float", v |-> n]

\* True is 1 and False is 0
PyBool(b) == [type |-> "bool", v |-> IF b THEN 1 ELSE 0]

PyStr(text) == [type |-> "str", text |-> text]

None == [type |-> "NoneType"]

\* a FilePath: the path of an existing file
Path(name) == [type |-> "Path", name |-> name]

Tuple(items) == [type |-> "tuple", items |-> items]

List(items) == [type |-> "list", items |-> items]

\* isinstance(x, (int, float)): bool is a subclass of int
IsNumber(x) == x.type \in {"int", "float", "bool"}

\* isinstance(x, str)
IsStr(x) == x.type = "str"

\* isinstance(x, (int, float, str))
IsNumberOrStr(x) == IsNumber(x) \/ IsStr(x)

validate_fields ==
    << "thrustSource", "burnOutTime", "grainsCenterOfMassPosition", "grainNumber",
       "grainDensity", "grainOuterRadius", "grainInitialInnerRadius",
       "grainInitialHeight", "grainSeparation", "nozzleRadius", "nozzlePosition",
       "throatRadius", "totalImpulse", "position" >>

FieldNames == {validate_fields[k] : k \in 1..Len(validate_fields)}

\* the fields declared with a List[...] type; the others are declared Any
ListFields == {"thrustSource", "grainNumber"}

\* getattr(values["solidMotor"], field): the attribute of that name
getattr(solidMotor, field) == [type |-> "attribute", of |-> solidMotor, name |-> field]

AssertionError(field, text) == [type |-> "AssertionError", field |-> field, text |-> text]

MustBeError(field) == [type |-> "ValueError", field |-> field, text |-> "Must be either a tuple, list, int or float"]

TupleIndexError == [type |-> "IndexError", text |-> "tuple index out of range"]

\* values[field] = value: the loop goes on to the next field
Stored(value) == [ok |-> TRUE, value |-> value]

\* the exception ends the validator
Rejected(e) == [ok |-> FALSE, error |-> e]

\* the (std, 'dist_func') tuple stored as it came
Validate_DistAsGiven(field, v, solidMotor) ==
    IF v.type = "tuple"
    THEN IF Len(v.items) = 0 THEN Rejected(TupleIndexError)
         ELSE IF ~IsNumber(At(v.items, 0))
         THEN Rejected(AssertionError(field, "First item of tuple"))
         ELSE IF Len(v.items) = 2
         THEN IF ~IsNumberOrStr(At(v.items, 1))
              THEN Rejected(AssertionError(field, "Second item of tuple"))
              ELSE Stored(v)
         ELSE IF Len(v.items) = 3
         THEN IF ~IsNumber(At(v.items, 1))
              THEN Rejected(AssertionError(field, "Second item of tuple"))
              ELSE IF ~IsStr(At(v.items, 2))
              THEN Rejected(AssertionError(field, "Third item of tuple"))
              ELSE Stored(v)
         ELSE Stored(v)
    ELSE IF v.type = "list"
    THEN IF Len(v.items) = 0
         THEN Stored(List(<<getattr(solidMotor, field)>>))
         ELSE IF ~(\A k \in 1..Len(v.items) : IsNumber(v.items[k]))
         THEN Rejected(AssertionError(field, "Items in list"))
         ELSE Stored(v)
    ELSE IF IsNumber(v)
    THEN Stored(Tuple(<<getattr(solidMotor, field), v>>))
    ELSE Rejected(MustBeError(field))

\* the bare number stored as the nominal value, next to the attribute
Validate_StdFirst(field, v, solidMotor) ==
    IF v.type = "tuple"
    THEN IF Len(v.items) = 0 THEN Rejected(TupleIndexError)
         ELSE IF ~IsNumber(At(v.items, 0))
         THEN Rejected(AssertionError(field, "First item of tuple"))
         ELSE IF Len(v.items) = 2
         THEN IF ~IsNumberOrStr(At(v.items, 1))
              THEN Rejected(AssertionError(field, "Second item of tuple"))
              ELSE IF ~IsStr(At(v.items, 1))
              THEN Stored(v)
              ELSE Stored(Tuple(<<getattr(solidMotor, field), At(v.items, 0), At(v.items, 1)>>))
         ELSE IF Len(v.items) = 3
         THEN IF ~IsNumber(At(v.items, 1))
              THEN Rejected(AssertionError(field, "Second item of tuple"))
              ELSE IF ~IsStr(At(v.items, 2))
              THEN Rejected(AssertionError(field, "Third item of tuple"))
              ELSE Stored(v)
         ELSE Stored(v)
    ELSE IF v.type = "list"
    THEN IF Len(v.items) = 0
         THEN Stored(List(<<getattr(solidMotor, field)>>))
         ELSE IF ~(\A k \in 1..Len(v.items) : IsNumber(v.items[k]))
         THEN Rejected(AssertionError(field, "Items in list"))
         ELSE Stored(v)
    ELSE IF IsNumber(v)
    THEN Stored(Tuple(<<v, getattr(solidMotor, field)>>))
    ELSE Rejected(MustBeError(field))

\* the body of the loop for one field holding v: the tuple branch (the
\* first item, then the checks of a tuple of two or of three; a tuple of
\* any other length is left in values as it came), the list branch, the
\* bare number, and the ValueError for everything else
Validate(field, v, solidMotor) ==
    IF v.type = "tuple"
    THEN IF Len(v.items) = 0 THEN Rejected(TupleIndexError)
         ELSE IF ~IsNumber(At(v.items, 0))
         THEN Rejected(AssertionError(field, "First item of tuple"))
         ELSE IF Len(v.items) = 2
         THEN IF ~IsNumberOrStr(At(v.items, 1))
              THEN Rejected(AssertionError(field, "Second item of tuple"))
              ELSE IF ~IsStr(At(v.items, 1))
              THEN Stored(v)
              ELSE Stored(Tuple(<<getattr(solidMotor, field), At(v.items, 0), At(v.items, 1)>>))
         ELSE IF Len(v.items) = 3
         THEN IF ~IsNumber(At(v.items, 1))
              THEN Rejected(AssertionError(field, "Second item of tuple"))
              ELSE IF ~IsStr(At(v.items, 2))
              THEN Rejected(AssertionError(field, "Third item of tuple"))
              ELSE Stored(v)
         ELSE Stored(v)
    ELSE IF v.type = "list"
    THEN IF Len(v.items) = 0
         THEN Stored(List(<<getattr(solidMotor, field)>>))
         ELSE IF ~(\A k \in 1..Len(v.items) : IsNumber(v.items[k]))
         THEN Rejected(AssertionError(field, "Items in list"))
         ELSE Stored(v)
    ELSE IF IsNumber(v)
    THEN Stored(Tuple(<<getattr(solidMotor, field), v>>))
    ELSE Rejected(MustBeError(field))

\* "for field in validate_fields", from the k-th field on: the values
\* dictionary when the loop ends and, if an exception ended it, the
\* exception and the field the loop was at
RECURSIVE ValidateFrom(_, _)
ValidateFrom(values, k) ==
    IF k > Len(validate_fields)
    THEN [values |-> values, status |-> "validated"]
    ELSE LET field == validate_fields[k]
             r == Validate(field, values[field], values["solidMotor"])
         IN  IF r.ok
             THEN ValidateFrom([values EXCEPT ![field] = r.value], k + 1)
             ELSE [values |-> values, status |-> "raised", error |-> r.error, field |-> field]

set_attr(values) == ValidateFrom(values, 1)

\* the values of a model built with no field given ("= []", "= 0")
Defaults ==
    [f \in FieldNames \cup {"solidMotor"} |->
        IF f = "solidMotor" THEN "solidMotor"
        ELSE IF f \in ListFields THEN List(<<>>) ELSE PyInt(0)]

\* what a tuple or a list given for a field declared Any may hold
AnyItems == {PyInt(1), PyFloat(2), PyBool(TRUE), PyStr("normal"), None}

\* what a list holds after the declared type of the field has admitted it:
\* List[Union[FilePath, None]] and
\* List[Union[Union[StrictInt, StrictFloat], None]]
ListItems(field) ==
    IF field = "thrustSource" THEN {Path("thrust.csv"), None}
    ELSE {PyInt(1), PyFloat(2), None}

Sequences(S) == UNION {[1..n -> S] : n \in 0..MaxItems}

InitMotor ==
    /\ \E field \in FieldNames :
          \/ /\ field \in ListFields
             /\ \E items \in Sequences(ListItems(field)) :
                   mc_given = [Defaults EXCEPT ![field] = List(items)]
          \/ /\ field \notin ListFields
             /\ \/ \E items \in Sequences(AnyItems) :
                      mc_given \in {[Defaults EXCEPT ![field] = Tuple(items)],
                                    [Defaults EXCEPT ![field] = List(items)]}
                \/ \E v \in AnyItems \cup {PyInt(0), PyFloat(0)} :
                      mc_given = [Defaults EXCEPT ![field] = v]
    /\ mc_values = mc_given
    /\ mc_result = [status |-> "ready"]
    /\ warnings = <<>>
    /\ GridIdle
    /\ TimeIdle
    /\ MaskIdle
    /\ FieldIdle
    /\ TankIdle
    /\ SensorIdle
    /\ IntervalIdle

\* pydantic runs the root validator on the values of the model
SetAttr ==
    /\ mc_result.status = "ready"
    /\ LET r == set_attr(mc_values)
       IN  /\ mc_values' = r.values
           /\ mc_result' = IF r.status = "raised"
                           THEN [status |-> "raised", error |-> r.error, field |-> r.field]
                           ELSE [status |-> "validated"]
    /\ UNCHANGED <<mc_given, nonMotorVars>>

NextMotor == SetAttr

SpecMotor == InitMotor /\ [][NextMotor]_vars

----------------------------------------------------------------------------
(* Properties of the McSolidMotor validation, checked under SpecMotor *)

Validated == mc_result.status = "validated"

ValidationRaised == mc_result.status = "raised"

\* the exception was raised for this field
RejectedAt(field) == ValidationRaised /\ mc_result.field = field

PositionOf(field) == CHOOSE k \in 1..Len(validate_fields) : validate_fields[k] = field

\* the loop got past this field
Passed(field) ==
    \/ Validated
    \/ ValidationRaised /\ PositionOf(field) < PositionOf(mc_result.field)

\* the attribute of the same name read from the solidMotor object
Nominal(field) == getattr(mc_given["solidMotor"], field)

\* (nominal, std): two numbers
IsNominalStd(v) ==
    v.type = "tuple" /\ Len(v.items) = 2 /\ IsNumber(v.items[1]) /\ IsNumber(v.items[2])

\* (nominal, std, 'dist_func'): two numbers and a string
IsNominalStdDist(v) ==
    /\ v.type = "tuple" /\ Len(v.items) = 3
    /\ IsNumber(v.items[1]) /\ IsNumber(v.items[2]) /\ IsStr(v.items[3])

\* (std, 'dist_func'): a number and a string
IsStdDist(v) ==
    v.type = "tuple" /\ Len(v.items) = 2 /\ IsNumber(v.items[1]) /\ IsStr(v.items[2])

\* a tuple of two or of three whose items have the wrong types for its length
HasWrongTypes(v) ==
    /\ v.type = "tuple"
    /\ \/ Len(v.items) = 2 /\ ~IsNumberOrStr(v.items[2])
       \/ Len(v.items) = 3 /\ ~(IsNumber(v.items[2]) /\ IsStr(v.items[3]))

\* C22: a field given as a bare int or float is taken as the standard
\* deviation and stored as (nominal, std), the nominal value being the
\* attribute of the same name read from the solidMotor object; the fields
\* left at their default 0 are stored that way too.
C22_BareNumberIsStd ==
    Validated =>
        \A field \in FieldNames :
            IsNumber(mc_given[field]) =>
                mc_values[field] = Tuple(<<Nominal(field), mc_given[field]>>)

\* burnOutTime was given as the float 2 and position left at 0: both are
\* stored next to the attribute of their own name
C22_Witness ==
    /\ Validated
    /\ mc_given["burnOutTime"] = PyFloat(2)
    /\ mc_values["burnOutTime"] = Tuple(<<getattr("solidMotor", "burnOutTime"), PyFloat(2)>>)
    /\ mc_given["position"] = PyInt(0)
    /\ mc_values["position"] = Tuple(<<getattr("solidMotor", "position"), PyInt(0)>>)

\* C23: a tuple (nominal, std) or (nominal, std, 'dist_func') is stored
\* unchanged, whatever the attribute of the solidMotor is; a tuple
\* (std, 'dist_func') is stored as (solidMotor attribute, std, 'dist_func');
\* a tuple whose first item is not a number, or whose items have the wrong
\* types for its length, is rejected.
C23_TuplesStoredOrRejected ==
    mc_result.status # "ready" =>
        \A field \in FieldNames :
            LET v == mc_given[field]
            IN  /\ (IsNominalStd(v) \/ IsNominalStdDist(v)) =>
                      Validated /\ mc_values[field] = v
                /\ IsStdDist(v) =>
                      /\ Validated
                      /\ mc_values[field] = Tuple(<<Nominal(field), v.items[1], v.items[2]>>)
                /\ (v.type = "tuple" /\ Len(v.items) >= 1 /\ ~IsNumber(v.items[1])) =>
                      RejectedAt(field) /\ mc_values[field] = v
                /\ HasWrongTypes(v) => RejectedAt(field) /\ mc_values[field] = v

\* grainDensity was given as (1, "normal"): the attribute is put in front
C23_Witness ==
    /\ Validated
    /\ mc_given["grainDensity"] = Tuple(<<PyInt(1), PyStr("normal")>>)
    /\ mc_values["grainDensity"]
           = Tuple(<<getattr("solidMotor", "grainDensity"), PyInt(1), PyStr("normal")>>)

\* C24 as stated: a list is saved as it was given, for every list-typed
\* field and every list the declared type of the field admits (a
\* thrustSource list of file paths, a grainNumber list of numbers); an empty
\* list is replaced by the one-element list holding the solidMotor attribute.
C24_ListsSavedAsGiven ==
    mc_result.status # "ready" =>
        \A field \in FieldNames :
            LET v == mc_given[field]
            IN  v.type = "list" =>
                    /\ ~RejectedAt(field)
                    /\ Passed(field) =>
                          mc_values[field] = IF Len(v.items) = 0
                                             THEN List(<<Nominal(field)>>)
                                             ELSE v

\* the same for the lists that hold numbers only
C24_NumberListsSavedAsGiven ==
    mc_result.status # "ready" =>
        \A field \in FieldNames :
            LET v == mc_given[field]
            IN  (v.type = "list" /\ \A k \in 1..Len(v.items) : IsNumber(v.items[k])) =>
                    /\ ~RejectedAt(field)
                    /\ Passed(field) =>
                          mc_values[field] = IF Len(v.items) = 0
                                             THEN List(<<Nominal(field)>>)
                                             ELSE v

\* a number given, or the attribute of the solidMotor put in its place
IsNominal(x) == IsNumber(x) \/ x.type = "attribute"

\* (number, number), (number, number, string) or a non-empty list
IsCanonical(v) ==
    \/ v.type = "tuple" /\ Len(v.items) = 2 /\ IsNominal(v.items[1]) /\ IsNumber(v.items[2])
    \/ /\ v.type = "tuple" /\ Len(v.items) = 3
       /\ IsNominal(v.items[1]) /\ IsNumber(v.items[2]) /\ IsStr(v.items[3])
    \/ v.type = "list" /\ Len(v.items) >= 1

\* C28 as stated: after the validation succeeds every validated field is a
\* 2-tuple (number, number), a 3-tuple (number, number, string) or a
\* non-empty list; no other shape given (a tuple of length 1 or of length 4
\* or more, a str or None) passes the validation unchanged.
C28_ValidatedFieldsAreCanonical ==
    Validated => \A field \in FieldNames : IsCanonical(mc_values[field])

\* the same when no tuple of a length other than two or three was given
C28_CanonicalButOtherLengths ==
    (Validated /\ \A field \in FieldNames :
                     mc_given[field].type = "tuple" => Len(mc_given[field].items) \in {2, 3})
        => \A field \in FieldNames : IsCanonical(mc_values[field])

----------------------------------------------------------------------------
(* get_interval_data_from_time_array.  The units argument is <<>> for      *)
(* None, or holds the reference datetime of the units given.               *)

\* largest first value of a time array
MaxFirst == 2
\* largest step between two consecutive values of a time array
MaxStep == 25

\* netCDF4.num2date(num, units, calendar="gregorian") of a number of hours
\* that need not be whole: the datetime that many hours after the
\* reference datetime of the units; only its day and hour are kept
Num2DateOfQuotient(num, units) ==
    LET h == QAdd(num, Whole(HoursOf(units)))
        whole_hours == h.num \div h.den
    IN  [day |-> whole_hours \div HoursPerDay, hour |-> whole_hours % HoursPerDay]

\* units = units if units is not None else time_array.units; the hour
\* field of num2date((time_array[-1] - time_array[0]) / (len - 1), units)
get_interval_data_from_time_array(nctime, units) ==
    LET u == IF units # <<>> THEN units[1] ELSE nctime.units
        quotient == Ratio(Last(nctime.values) - At(nctime.values, 0), Len(nctime.values) - 1)
    IN  Num2DateOfQuotient(quotient, u).hour

InitInterval ==
    /\ \E first \in 0..MaxFirst, step \in 1..MaxStep, next \in 0..MaxStep,
          u \in References, given \in {<<>>} \cup {<<w>> : w \in References} :
          interval_call =
              [time_array |-> [units |-> u,
                               values |-> IF next = 0
                                          THEN <<first, first + step>>
                                          ELSE <<first, first + step, first + step + next>>],
               units |-> given]
    /\ interval_result = [status |-> "ready"]
    /\ warnings = <<>>
    /\ GridIdle
    /\ TimeIdle
    /\ MaskIdle
    /\ FieldIdle
    /\ TankIdle
    /\ MotorIdle
    /\ SensorIdle

GetIntervalDataFromTimeArray ==
    /\ interval_result.status = "ready"
    /\ interval_result' =
           [status |-> "returned",
            value |-> get_interval_data_from_time_array(interval_call.time_array,
                                                        interval_call.units)]
    /\ UNCHANGED <<interval_call, nonIntervalVars>>

NextInterval == GetIntervalDataFromTimeArray

SpecInterval == InitInterval /\ [][NextInterval]_vars

\* (time_array[-1] - time_array[0]) / (len(time_array) - 1)
MeanStep ==
    LET values == interval_call.time_array.values
    IN  Ratio(Last(values) - At(values, 0), Len(values) - 1)

\* the reference datetime of the units the call used
UnitsUsed ==
    IF interval_call.units # <<>> THEN interval_call.units[1]
    ELSE interval_call.time_array.units

IntervalReturned == interval_result.status = "returned"

\* C25 as stated: get_interval_data_from_time_array returns the interval in
\* hours between two consecutive times, (time_array[-1] - time_array[0]) /
\* (len(time_array) - 1), for every array of at least two samples, intervals
\* of 24 hours or more and units whose reference is not at hour 0 included.
C25_IntervalIsMeanStepInHours ==
    IntervalReturned => Whole(interval_result.value) = MeanStep

\* the same for a whole number of hours below 24 and units that start at
\* hour 0
C25_IntervalBelowADayFromMidnight ==
    (IntervalReturned /\ UnitsUsed.hour = 0 /\ MeanStep.den = 1 /\ MeanStep.num < HoursPerDay)
        => Whole(interval_result.value) = MeanStep

----------------------------------------------------------------------------
(* The sensors (rocketpy/sensors/accelerometer.py, gyroscope.py): measure  *)
(* and export_measured_data.  The value a sensor works on is a vector in   *)
(* the sensor frame; the steps of the Sensors base class are kept as the   *)
(* list of the steps applied to it, [raw, steps], in the order applied.    *)

\* most measure calls made on a sensor
MaxCalls == 2
\* times 0..MaxInstant a measurement is taken at
MaxInstant == 1
\* the rocket states 1..MaxStates (u with its derivative u_dot) measured
MaxStates == 2

\* a step of the base class applied to the vector
Applied(value, step) == [value EXCEPT !.steps = Append(@, step)]

\* Sensors.apply_noise
apply_noise(value) == Applied(value, "apply_noise")

\* Sensors.apply_temperature_drift
apply_temperature_drift(value) == Applied(value, "apply_temperature_drift")

\* Sensors.quantize
quantize(value) == Applied(value, "quantize")

\* Sensors._save_data of a sensor added once to the rocket: the record is
\* appended to the list
save_data(list, data) == Append(list, data)

\* Vector.zeros()
VectorZeros == <<0, 0, 0>>

\* [*W]: the three components of the vector
Unpacked(value) == [k \in 1..3 |-> [axis |-> k, of |-> value]]

\* the vector in the sensor frame before any step of the sensor is applied:
\* the rotated acceleration at the sensor, with or without gravity, or the
\* rotated angular velocity
InSensorFrame(self, u) ==
    [raw |-> [quantity |-> IF self.type = "Gyroscope" THEN "omega"
                           ELSE IF self.consider_gravity THEN "acceleration with gravity"
                           ELSE "acceleration",
              u |-> u],
     steps |-> <<>>]

\* "A = self.apply_noise(A); A = self.apply_temperature_drift(A);
\*  A = self.quantize(A)"
AccelerometerSteps(self, A) == quantize(apply_temperature_drift(apply_noise(A)))

\* the acceleration sensitivity added after the quantization
GyroscopeSteps_SensitivityLast(self, W) ==
    LET drifted == quantize(apply_temperature_drift(apply_noise(W)))
    IN  IF self.acceleration_sensitivity # VectorZeros
        THEN Applied(drifted, "apply_acceleration_sensitivity")
        ELSE drifted

\* "W = self.apply_noise(W); W = self.apply_temperature_drift(W);
\*  if self.acceleration_sensitivity != Vector.zeros():
\*      W += self.apply_acceleration_sensitivity(...);
\*  W = self.quantize(W)"
GyroscopeSteps(self, W) ==
    LET drifted == apply_temperature_drift(apply_noise(W))
        sensed == IF self.acceleration_sensitivity # VectorZeros
                  THEN Applied(drifted, "apply_acceleration_sensitivity")
                  ELSE drifted
    IN  quantize(sensed)

\* the record stored without its time
Record_NoTime(t, value) == Unpacked(value)

\* (t, *W)
Record(t, value) == <<t>> \o Unpacked(value)

\* str.lower, letter by letter
LowerLetter(c) ==
    CASE c = "C" -> "c" [] c = "S" -> "s" [] c = "V" -> "v"
      [] c = "J" -> "j" [] c = "O" -> "o" [] c = "N" -> "n"
      [] OTHER -> c

Lower(text) == [k \in 1..Len(text) |-> LowerLetter(text[k])]

Csv == <<"c", "s", "v">>

Json == <<"j", "s", "o", "n">>

InvalidFormat == [type |-> "ValueError", text |-> "Invalid format"]

ListIndexError == [type |-> "IndexError", text |-> "list index out of range"]

ExportReturned == [status |-> "returned"]

ExportRaised(e) == [status |-> "raised", error |-> e]

\* the file written: the header line or the keys, and the records
Written(filename, kind, names, data) ==
    <<[name |-> filename, kind |-> kind, names |-> names, records |-> data]>>

AccelerometerNames == <<"t", "ax", "ay", "az">>

GyroscopeNames == <<"t", "wx", "wy", "wz">>

\* Accelerometer.export_measured_data: the result and the files written.
\* The records of a sensor added once are tuples, so the isinstance test of
\* measured_data[0] fails on an empty list and is False otherwise.
AccelerometerExport(data, filename, format) ==
    IF Lower(format) \notin {Json, Csv}
    THEN [result |-> ExportRaised(InvalidFormat), files |-> <<>>]
    ELSE IF data = <<>>
    THEN [result |-> ExportRaised(ListIndexError), files |-> <<>>]
    ELSE IF Lower(format) = Csv
    THEN [result |-> ExportReturned, files |-> Written(filename, "csv", AccelerometerNames, data)]
    ELSE [result |-> ExportReturned, files |-> Written(filename, "json", AccelerometerNames, data)]

\* Gyroscope.export_measured_data
GyroscopeExport(data, filename, format) ==
    IF format = Csv
    THEN [result |-> ExportReturned, files |-> Written(filename, "csv", GyroscopeNames, data)]
    ELSE IF format = Json
    THEN [result |-> ExportReturned, files |-> Written(filename, "json", GyroscopeNames, data)]
    ELSE [result |-> ExportRaised(InvalidFormat), files |-> <<>>]

\* acceleration_sensitivity after _vectorize_input: 0 (the default), one
\* figure for all axes, or a list of three
Sensitivities == {VectorZeros, <<1, 1, 1>>, <<0, 0, 1>>}

SensorsBuilt ==
    {[type |-> "Accelerometer", consider_gravity |-> g, acceleration_sensitivity |-> VectorZeros] :
        g \in BOOLEAN}
    \cup {[type |-> "Gyroscope", consider_gravity |-> FALSE, acceleration_sensitivity |-> a] :
            a \in Sensitivities}

Formats ==
    {Csv, Json, <<"C", "S", "V">>, <<"J", "s", "o", "n">>, <<"x", "m", "l">>, <<>>}

InitSensor ==
    /\ sensor \in SensorsBuilt
    /\ measurement = <<>>
    /\ measured_data = <<>>
    /\ saved = <<>>
    /\ measure_calls = <<>>
    /\ export_call = <<>>
    /\ export_result = [status |-> "none"]
    /\ files = <<>>
    /\ warnings = <<>>
    /\ GridIdle
    /\ TimeIdle
    /\ MaskIdle
    /\ FieldIdle
    /\ TankIdle
    /\ MotorIdle
    /\ IntervalIdle

\* Accelerometer.measure(t, u, u_dot, relative_position, gravity)
AccelerometerMeasure ==
    /\ sensor.type = "Accelerometer"
    /\ Len(measure_calls) < MaxCalls
    /\ \E t \in 0..MaxInstant, u \in 1..MaxStates :
          LET A == AccelerometerSteps(sensor, InSensorFrame(sensor, u))
          IN  /\ measurement' = Unpacked(A)
              /\ saved' = Append(saved, Record(t, A))
              /\ measured_data' = save_data(measured_data, Record(t, A))
              /\ measure_calls' = Append(measure_calls, [t |-> t, u |-> u])
    /\ UNCHANGED <<sensor, export_call, export_result, files, nonSensorVars>>

\* Gyroscope.measure(t, u, u_dot, relative_position)
GyroscopeMeasure ==
    /\ sensor.type = "Gyroscope"
    /\ Len(measure_calls) < MaxCalls
    /\ \E t \in 0..MaxInstant, u \in 1..MaxStates :
          LET W == GyroscopeSteps(sensor, InSensorFrame(sensor, u))
          IN  /\ measurement' = Unpacked(W)
              /\ measured_data' = Append(measured_data, Record(t, W))
              /\ measure_calls' = Append(measure_calls, [t |-> t, u |-> u])
    /\ UNCHANGED <<sensor, saved, export_call, export_result, files, nonSensorVars>>

\* sensor.export_measured_data("data", format)
ExportMeasuredData ==
    /\ sensor.type \in {"Accelerometer", "Gyroscope"}
    /\ \E format \in Formats :
          LET r == IF sensor.type = "Accelerometer"
                   THEN AccelerometerExport(measured_data, "data", format)
                   ELSE GyroscopeExport(measured_data, "data", format)
          IN  /\ export_call' = [filename |-> "data", format |-> format, data |-> measured_data]
              /\ export_result' = r.result
              /\ files' = r.files
    /\ UNCHANGED <<sensor, measurement, measured_data, saved, measure_calls, nonSensorVars>>

NextSensor == AccelerometerMeasure \/ GyroscopeMeasure \/ ExportMeasuredData

SpecSensor == InitSensor /\ [][NextSensor]_vars

----------------------------------------------------------------------------
(* Properties of the sensors, checked under SpecSensor *)

Measured == measure_calls # <<>>

\* the order the steps of one measure call are to run in
StepsInOrder ==
    <<"apply_noise", "apply_temperature_drift">>
        \o (IF sensor.type = "Gyroscope" /\ sensor.acceleration_sensitivity # VectorZeros
            THEN <<"apply_acceleration_sensitivity">>
            ELSE <<>>)
        \o <<"quantize">>

\* the records the measure calls handed over: to _save_data by the
\* accelerometer, to measured_data by the gyroscope
Handed == IF sensor.type = "Accelerometer" THEN saved ELSE measured_data

\* C26: in every Accelerometer.measure and Gyroscope.measure call the steps
\* run in the order apply_noise, apply_temperature_drift, (Gyroscope only,
\* with a non-zero acceleration_sensitivity: the acceleration-sensitivity
\* term), quantize; what is stored in measurement and in measured_data is
\* the output of quantize, with nothing applied after it.
C26_StepsRunInOrder ==
    Measured =>
        /\ \A k \in 1..3 : measurement[k].of.steps = StepsInOrder
        /\ \A n \in 1..Len(measured_data) :
              \A k \in 2..4 :
                  /\ measured_data[n][k].of.steps = StepsInOrder
                  /\ Last(measured_data[n][k].of.steps) = "quantize"
        /\ \A n \in 1..Len(saved) :
              \A k \in 2..4 : saved[n][k].of.steps = StepsInOrder

\* a gyroscope with an acceleration sensitivity measured twice
C26_Witness ==
    /\ sensor.type = "Gyroscope"
    /\ sensor.acceleration_sensitivity = <<0, 0, 1>>
    /\ Len(measured_data) = 2
    /\ measurement[1].of.steps
           = <<"apply_noise", "apply_temperature_drift",
               "apply_acceleration_sensitivity", "quantize">>

\* an accelerometer measured: three steps, the last is quantize
C26_WitnessAccelerometer ==
    /\ sensor.type = "Accelerometer"
    /\ Len(saved) = 1
    /\ measurement[3].of.steps = <<"apply_noise", "apply_temperature_drift", "quantize">>

\* C29: after n Gyroscope.measure calls measured_data holds exactly n more
\* records, in call order, each (t, wx, wy, wz) with the t of its call, and
\* measurement is the (wx, wy, wz) of the last record; each
\* Accelerometer.measure call sets measurement to exactly the values it
\* hands with t to _save_data, once per call.
C29_OneRecordPerCall ==
    /\ Len(Handed) = Len(measure_calls)
    /\ \A n \in 1..Len(Handed) :
          /\ Len(Handed[n]) = 4
          /\ Handed[n][1] = measure_calls[n].t
          /\ \A k \in 1..3 :
                /\ Handed[n][k + 1].axis = k
                /\ Handed[n][k + 1].of.raw.u = measure_calls[n].u
    /\ Measured => measurement = SubSeq(Last(Handed), 2, 4)
    /\ sensor.type = "Gyroscope" => saved = <<>>

\* a gyroscope measured at time 1 and then at time 0: the records are in
\* call order and measurement is the second one's
C29_Witness ==
    /\ sensor.type = "Gyroscope"
    /\ Len(measured_data) = 2
    /\ measured_data[1][1] = 1
    /\ measured_data[2][1] = 0
    /\ measured_data[1][2].of.raw.u = 1
    /\ measured_data[2][2].of.raw.u = 2
    /\ measurement = SubSeq(measured_data[2], 2, 4)

Exported == export_result.status \in {"returned", "raised"}

\* C30 as stated: both sensors treat every format string alike: "csv" and
\* "json" in any letter case write the data, and every other string raises
\* ValueError("Invalid format") with no file opened or written and
\* measured_data left as it was.
C30_ExportsAgreeOnEveryFormat ==
    (Exported /\ export_call.data # <<>>) =>
        IF Lower(export_call.format) \in {Csv, Json}
        THEN /\ export_result = ExportReturned
             /\ Len(files) = 1
             /\ files[1].records = export_call.data
        ELSE /\ export_result = ExportRaised(InvalidFormat)
             /\ files = <<>>
             /\ export_call.data = SubSeq(measured_data, 1, Len(export_call.data))

\* the same for the format strings written in lower case
C30_ExportsAgreeOnLowerCase ==
    (Exported /\ export_call.data # <<>> /\ Lower(export_call.format) = export_call.format) =>
        IF export_call.format \in {Csv, Json}
        THEN /\ export_result = ExportReturned
             /\ Len(files) = 1
             /\ files[1].records = export_call.data
        ELSE /\ export_result = ExportRaised(InvalidFormat)
             /\ files = <<>>
             /\ export_call.data = SubSeq(measured_data, 1, Len(export_call.data))

====
